---- MODULE Spec2Model ----
(***************************************************************************)
(* corust: a sum-type compiler (declaration -> interface, records, impls)  *)
(* and a pattern dispatcher (match_t! / g!(match ...)).                    *)
(*                                                                         *)
(* These state machines share this module:                                 *)
(*   SpecDispatch  the code a dispatch request expands to, run on a handle *)
(*   SpecSubst     substitute_type_params applied to a rendered signature  *)
(*   SpecGen       per-variant generation of records, impls, method bodies *)
(*   SpecAnalysis  the type parameters a variant's fields and impl use     *)
(*   SpecParse     the declaration parsers and the method block parser     *)
(*   SpecRest      the pattern rewrite of a transferred-mode arm           *)
(*   SpecRequest   the dispatch request parsers                            *)
(*   SpecArms      parse_match_arms on a block of arms                     *)
(*   SpecBody      generate_method_body for one variant and one method     *)
(*   SpecStrip     the two removals of a pattern's type arguments          *)
(* Text is a sequence of one-character strings, so that to_lowercase,      *)
(* str::replace and str::contains are computed as the code computes them.  *)
(***************************************************************************)
EXTENDS Integers, Sequences, FiniteSets, TLC

VARIABLES
    \* ---- dispatch (lib.rs match_t, match_macro.rs match_impl)
    is_move,        \* MatchTInput.is_move
    protocol,       \* "typeid": lib.rs match_t; "accessor": match_macro.rs g!(match)
    handle,         \* the record behind __expr: [variant, val]
    arms,           \* Vec<MatchArm>: [variant, pat]
    pc,             \* position in the expanded code
    idx,            \* the arm the expansion is at (0-based, as enumerate())
    matched_idx,    \* __matched_idx: <<>> is None, <<k>> is Some(k)
    probed,         \* arm indices probed so far, in order
    ran,            \* arm indices whose body was evaluated, in order
    consumed,       \* how many times __expr was moved into __any_box
    payload,        \* how the fields reached the body: "none" | "ref" | "move"
    \* ---- substitution (helpers.rs substitute_type_params)
    sig,            \* method.sig: the signature's tokens
    style,          \* how this toolchain's TokenStream::to_string spaces tokens
    enum_params,    \* all_type_params_ordered
    trait_type,     \* the variant's refinement type, as tokens
    trait_type_args,\* extract_trait_type_args(trait_type)
    result,         \* the string being rewritten
    spc,            \* "start" | "pass1" | "pass2" | "done" | "idle"
    \* ---- generation (lib.rs type_enum, variant_gen.rs, codegen.rs)
    generator,      \* which expansion runs: "type_enum" | "variant_gen" | "codegen"
    variants,       \* the declaration's variants, in declaration order
    methods,        \* ParsedEnum.methods: each a Vec<MethodArm>
    gi,             \* how many variants have been expanded
    items,          \* the items emitted so far, in order
    gpc,            \* "gen" | "done" | "idle"
    \* ---- parameter analysis (type_analysis.rs, variant_gen.rs generate_combined_trait_impl)
    fields,         \* the variant's fields: [shape, tys]
    all_type_params_ordered,\* the union's declared type parameters, in order
    variant_trait_type,\* the variant's applicable interface type, as tokens
    struct_type_params,\* collect_variant_type_params(fields, all_type_params)
    filtered_impl_generics,\* the impl block's parameters, in order
    apc,            \* "collect" | "impl" | "done" | "idle"
    \* ---- declaration parsers (enum_parser.rs, parser.rs)
    parser_kind,    \* "enum_parser" | "parser" | "parse_method"
    keyword,        \* the declaration's leading keyword
    src,            \* the entries the declaration was written from
    content,           \* the token trees of the braced content
    pos,            \* index of the next token tree
    angle_depth,    \* the scan's angle bracket depth counter
    type_tokens,            \* type_tokens / current_tokens / pattern_tokens
    head,           \* the entry being parsed
    parsed,         \* the variants (or arms) parsed so far
    ppc,            \* "head" | "variant" | "refine" | "comma" | .. | "ok" | "err" | "idle"
    \* ---- transferred-mode arm (match_macro.rs generate_move_match)
    arm_pattern,    \* arm.pattern: the arm's pattern, as token trees
    type_name,      \* the tokens of the pattern before its first group or punctuation
    transformed_pattern,\* transform_pattern_add_rest(arm.pattern)
    rpc,            \* "arm" | "done" | "idle"
    \* ---- dispatch request parsers (lib.rs, match_macro.rs, pattern_parser.rs)
    request_parser, \* "lib" | "match_macro" | "pattern_parser"
    request,        \* the macro's input, as token trees
    iter,           \* how many token trees the iterator has consumed
    request_is_move,\* is_move as parsed from the request
    expr_tokens,    \* expr_tokens
    type_hint,      \* type_hint: <<>> is None, <<ts>> is Some(ts)
    arms_group,     \* the request's braced arm block: <<>> until taken, then <<g>>
    qpc,            \* "match" | "move" | "expr" | "hint" | "arms" | "ok" | "err" | "idle"
    \* ---- dispatch arm parser (parse_match_arms)
    block,          \* the arm block as written: [entries, trailing]
    arms_tokens,    \* arms_group.stream(), as token trees
    arm_pos,        \* how many token trees the loop has taken
    match_arms,     \* arms: the MatchArm values pushed so far
    current_pattern,\* current_pattern
    current_body,   \* current_body
    in_body,        \* in_body
    mpc,            \* "loop" | "done" | "idle"
    \* ---- one method body (variant_gen.rs generate_method_body)
    body_variant,   \* variant: the ParsedVariant a body is generated for
    body_method,    \* method: [sig, arms]
    body_style,     \* how this toolchain's TokenStream::to_string spaces tokens
    method_impl,    \* the result: <<>> is None, <<b>> is Some(b)
    bpc,            \* "body" | "done" | "idle"
    \* ---- pattern generics (helpers.rs strip_pattern_generics, pattern_parser.rs extract_type_and_pattern)
    pattern_src,    \* the arm pattern as written: [args, fields]
    pattern_raw,    \* the arm pattern, as token trees
    result_tokens,  \* strip_pattern_generics(pattern): <<>> until computed, then <<ts>>
    type_name_tokens,\* extract_type_and_pattern(pattern).0
    pattern_without_generics,\* extract_type_and_pattern(pattern).1: <<>> until computed, then <<ts>>
    tpc             \* "start" | "stripped" | "extracted" | "done" | "idle"

dvars == <<is_move, protocol, handle, arms, pc, idx, matched_idx, probed, ran,
           consumed, payload>>

svars == <<sig, style, enum_params, trait_type, trait_type_args, result, spc>>

gvars == <<generator, variants, methods, gi, items, gpc>>

avars == <<fields, all_type_params_ordered, variant_trait_type, struct_type_params, filtered_impl_generics, apc>>

pvars == <<parser_kind, keyword, src, content, pos, angle_depth, type_tokens,
           head, parsed, ppc>>

rvars == <<arm_pattern, type_name, transformed_pattern, rpc>>

qvars == <<request_parser, request, iter, request_is_move, expr_tokens, type_hint, arms_group, qpc>>

mvars == <<block, arms_tokens, arm_pos, match_arms, current_pattern, current_body, in_body, mpc>>

bvars == <<body_variant, body_method, body_style, method_impl, bpc>>

tvars == <<pattern_src, pattern_raw, result_tokens, type_name_tokens, pattern_without_generics, tpc>>

vars == <<dvars, svars, gvars, avars, pvars, rvars, qvars, mvars, bvars, tvars>>

\* what each part leaves alone
notDispatch == <<svars, gvars, avars, pvars, rvars, qvars, mvars, bvars, tvars>>
notSubst == <<dvars, gvars, avars, pvars, rvars, qvars, mvars, bvars, tvars>>
notGen == <<dvars, svars, avars, pvars, rvars, qvars, mvars, bvars, tvars>>
notAnalysis == <<dvars, svars, gvars, pvars, rvars, qvars, mvars, bvars, tvars>>
notParse == <<dvars, svars, gvars, avars, rvars, qvars, mvars, bvars, tvars>>
notRest == <<dvars, svars, gvars, avars, pvars, qvars, mvars, bvars, tvars>>
notRequest == <<dvars, svars, gvars, avars, pvars, rvars, mvars, bvars, tvars>>
notArms == <<dvars, svars, gvars, avars, pvars, rvars, qvars, bvars, tvars>>
notBody == <<dvars, svars, gvars, avars, pvars, rvars, qvars, mvars, tvars>>
notStrip == <<dvars, svars, gvars, avars, pvars, rvars, qvars, mvars, bvars>>

\* a part that is not running
IdleDispatch ==
    /\ is_move = FALSE /\ protocol = "idle" /\ handle = <<>> /\ arms = <<>>
    /\ pc = "idle" /\ idx = 0 /\ matched_idx = <<>> /\ probed = <<>> /\ ran = <<>>
    /\ consumed = 0 /\ payload = "none"

IdleSubst ==
    /\ sig = <<>> /\ style = "idle" /\ enum_params = <<>> /\ trait_type = <<>>
    /\ trait_type_args = <<>> /\ result = <<>> /\ spc = "idle"

IdleGen ==
    /\ generator = "idle" /\ variants = <<>> /\ methods = <<>>
    /\ gi = 0 /\ items = <<>> /\ gpc = "idle"

IdleAnalysis ==
    /\ fields = <<>> /\ all_type_params_ordered = <<>> /\ variant_trait_type = <<>>
    /\ struct_type_params = {} /\ filtered_impl_generics = <<>> /\ apc = "idle"

IdleParse ==
    /\ parser_kind = "idle" /\ keyword = "idle" /\ src = <<>> /\ content = <<>> /\ pos = 0
    /\ angle_depth = 0 /\ type_tokens = <<>> /\ head = <<>> /\ parsed = <<>> /\ ppc = "idle"

IdleRest ==
    arm_pattern = <<>> /\ type_name = <<>> /\ transformed_pattern = <<>> /\ rpc = "idle"

IdleRequest ==
    /\ request_parser = "idle" /\ request = <<>> /\ iter = 0 /\ request_is_move = FALSE /\ expr_tokens = <<>>
    /\ type_hint = <<>> /\ arms_group = <<>> /\ qpc = "idle"

IdleArms ==
    /\ block = <<>> /\ arms_tokens = <<>> /\ arm_pos = 0 /\ match_arms = <<>>
    /\ current_pattern = <<>> /\ current_body = <<>> /\ in_body = FALSE /\ mpc = "idle"

IdleBody ==
    body_variant = <<>> /\ body_method = <<>> /\ body_style = "idle" /\ method_impl = <<>> /\ bpc = "idle"

IdleStrip ==
    /\ pattern_src = <<>> /\ pattern_raw = <<>> /\ result_tokens = <<>> /\ type_name_tokens = <<>>
    /\ pattern_without_generics = <<>> /\ tpc = "idle"

IdleExceptDispatch == IdleSubst /\ IdleGen /\ IdleAnalysis /\ IdleParse /\ IdleRest /\ IdleRequest /\ IdleArms /\ IdleBody /\ IdleStrip
IdleExceptSubst == IdleDispatch /\ IdleGen /\ IdleAnalysis /\ IdleParse /\ IdleRest /\ IdleRequest /\ IdleArms /\ IdleBody /\ IdleStrip
IdleExceptGen == IdleDispatch /\ IdleSubst /\ IdleAnalysis /\ IdleParse /\ IdleRest /\ IdleRequest /\ IdleArms /\ IdleBody /\ IdleStrip
IdleExceptAnalysis == IdleDispatch /\ IdleSubst /\ IdleGen /\ IdleParse /\ IdleRest /\ IdleRequest /\ IdleArms /\ IdleBody /\ IdleStrip
IdleExceptParse == IdleDispatch /\ IdleSubst /\ IdleGen /\ IdleAnalysis /\ IdleRest /\ IdleRequest /\ IdleArms /\ IdleBody /\ IdleStrip
IdleExceptRest == IdleDispatch /\ IdleSubst /\ IdleGen /\ IdleAnalysis /\ IdleParse /\ IdleRequest /\ IdleArms /\ IdleBody /\ IdleStrip
IdleExceptRequest == IdleDispatch /\ IdleSubst /\ IdleGen /\ IdleAnalysis /\ IdleParse /\ IdleRest /\ IdleArms /\ IdleBody /\ IdleStrip
IdleExceptArms == IdleDispatch /\ IdleSubst /\ IdleGen /\ IdleAnalysis /\ IdleParse /\ IdleRest /\ IdleRequest /\ IdleBody /\ IdleStrip
IdleExceptBody == IdleDispatch /\ IdleSubst /\ IdleGen /\ IdleAnalysis /\ IdleParse /\ IdleRest /\ IdleRequest /\ IdleArms /\ IdleStrip
IdleExceptStrip == IdleDispatch /\ IdleSubst /\ IdleGen /\ IdleAnalysis /\ IdleParse /\ IdleRest /\ IdleRequest /\ IdleArms /\ IdleBody

(***************************************************************************)
(* Bounds                                                                  *)
(***************************************************************************)
MaxArms == 2
MaxSigLen == 3
MaxVariants == 2
MaxMethodArms == 2
MaxTypeDepth == 2
MaxEntries == 2

(***************************************************************************)
(* Text                                                                    *)
(***************************************************************************)
Num == <<"N", "u", "m">>
ToNum == <<"T", "o", "N", "u", "m">>
Bool == <<"B", "o", "o", "l">>

\* The variant names of the declaration the handle belongs to.
VariantNames == {Num, ToNum, Bool}

\* a variant name that differs from Num only in letter case
NUM == <<"N", "U", "M">>

\* the names an indexed declaration may give its variants
DeclarableNames == VariantNames \cup {NUM}

\* char::to_lowercase on the letters in use
ToLowerChar(c) ==
    CASE c = "N" -> "n"
      [] c = "T" -> "t"
      [] c = "B" -> "b"
      [] c = "U" -> "u"
      [] c = "M" -> "m"
      [] OTHER -> c

\* str::to_lowercase
ToLower(s) == [k \in 1..Len(s) |-> ToLowerChar(s[k])]

\* format!("__as_{}", variant_name_lower)
\* an accessor name that ignores the variant
AccessorNameShared(variant) == <<"_", "_", "a", "s", "_">>

AccessorName(variant) == <<"_", "_", "a", "s", "_">> \o ToLower(variant)

(***************************************************************************)
(* Dispatch                                                                *)
(***************************************************************************)
\* A field pattern of an arm:
\*   "wild"    `_`, `..` or a destructuring of irrefutable sub-patterns
\*   "lit"     a refutable pattern: matches only the field value 1
\*   "bind"    a single binding whose capsule re-specialisation agrees
\*   "bindBad" a single binding whose type hint disagrees with the field type
Pats == {"wild", "lit", "bind", "bindBad"}

Arm == [variant : VariantNames, pat : Pats]

Handle == [variant : VariantNames, val : 0..1]

ArmLists == UNION {[1..n -> Arm] : n \in 0..MaxArms}

\* `if let #pattern = value` / `match value { #pattern => .., _ => panic!() }`
PatternMatches(arm, h) == arm.pat = "lit" => h.val = 1

\* (&*__expr as &dyn Any).is::<#type_name>() and downcast / downcast_ref::<#type_name>()
TypeIs(arm, h) == arm.variant = h.variant

\* __expr.#method_name(): only the record's own accessor is overridden to return Some
AccessorSome(arm, h) == AccessorName(arm.variant) = AccessorName(h.variant)

\* the probe of the borrowed expansion
RefProbeOk(arm, h) ==
    IF protocol = "typeid" THEN TypeIs(arm, h) ELSE AccessorSome(arm, h)

\* is_simple_binding && inner_str.trim() != "_"
IsSimpleBinding(arm) == arm.pat \in {"bind", "bindBad"}

InitDispatch ==
    /\ IdleExceptDispatch
    /\ is_move \in BOOLEAN
    /\ protocol \in {"typeid", "accessor"}
    /\ handle \in Handle
    /\ arms \in ArmLists
    /\ pc = "probe"
    /\ idx = 0
    /\ matched_idx = <<>>
    /\ probed = <<>>
    /\ ran = <<>>
    /\ consumed = 0
    /\ payload = "none"

\* MoveProbe with the recorded index off by one (a 1-based position)
MoveProbeOffByOne ==
    /\ is_move /\ pc = "probe" /\ idx < Len(arms)
    /\ probed' = Append(probed, idx)
    /\ matched_idx' = IF arms[idx + 1].variant = handle.variant
                      THEN <<idx + 1>> ELSE matched_idx
    /\ idx' = idx + 1
    /\ UNCHANGED notDispatch
    /\ UNCHANGED <<is_move, protocol, handle, arms, pc, ran, consumed, payload>>

\* MoveProbe recording every arm, whether or not its type check succeeds
MoveProbeRecordsEvery ==
    /\ is_move /\ pc = "probe" /\ idx < Len(arms)
    /\ probed' = Append(probed, idx)
    /\ matched_idx' = <<idx>>
    /\ idx' = idx + 1
    /\ UNCHANGED notDispatch
    /\ UNCHANGED <<is_move, protocol, handle, arms, pc, ran, consumed, payload>>

\* First pass of the transferred expansion: every arm's type check runs, and each
\* one that succeeds assigns __matched_idx.
MoveProbe ==
    /\ is_move /\ pc = "probe" /\ idx < Len(arms)
    /\ probed' = Append(probed, idx)
    /\ matched_idx' = IF TypeIs(arms[idx + 1], handle) THEN <<idx>> ELSE matched_idx
    /\ idx' = idx + 1
    /\ UNCHANGED notDispatch
    /\ UNCHANGED <<is_move, protocol, handle, arms, pc, ran, consumed, payload>>

\* MoveSwitch returning a default value instead of panicking on None
MoveSwitchDefault ==
    /\ is_move /\ pc = "probe" /\ idx = Len(arms)
    /\ pc' = IF matched_idx = <<>> THEN "Extracted"
             ELSE IF matched_idx[1] >= Len(arms) THEN "InvalidIndex"
             ELSE "arm"
    /\ UNCHANGED notDispatch
    /\ UNCHANGED <<is_move, protocol, handle, arms, idx, matched_idx, probed, ran,
                   consumed, payload>>

\* match __matched_idx { Some(__idx) => match __idx {..}, None => panic!(..) }
MoveSwitch ==
    /\ is_move /\ pc = "probe" /\ idx = Len(arms)
    /\ pc' = IF matched_idx = <<>> THEN "ExhaustedFail"
             ELSE IF matched_idx[1] >= Len(arms) THEN "InvalidIndex"
             ELSE "arm"
    /\ UNCHANGED notDispatch
    /\ UNCHANGED <<is_move, protocol, handle, arms, idx, matched_idx, probed, ran,
                   consumed, payload>>

\* MoveArm matching on a borrow of the box (`match &*__expr`) instead of moving out
MoveArmBorrows ==
    /\ is_move /\ pc = "arm"
    /\ LET arm == arms[matched_idx[1] + 1] IN
       IF arm.variant # handle.variant
       THEN /\ pc' = "DowncastFail"
            /\ UNCHANGED <<ran, payload>>
       ELSE IF arm.pat = "lit" => handle.val = 1
       THEN /\ pc' = "Extracted"
            /\ ran' = Append(ran, matched_idx[1])
            /\ payload' = "ref"
       ELSE /\ pc' = "PatternFail"
            /\ UNCHANGED <<ran, payload>>
    /\ UNCHANGED notDispatch
    /\ UNCHANGED <<is_move, protocol, handle, arms, idx, matched_idx, probed, consumed>>

\* #idx => { let __any_box = __expr; downcast; match *__concrete_box {..} }
MoveArm ==
    /\ is_move /\ pc = "arm"
    /\ LET arm == arms[matched_idx[1] + 1] IN
       /\ consumed' = consumed + 1
       /\ IF ~TypeIs(arm, handle)
          THEN /\ pc' = "DowncastFail"
               /\ UNCHANGED <<ran, payload>>
          ELSE IF PatternMatches(arm, handle)
          THEN /\ pc' = "Extracted"
               /\ ran' = Append(ran, matched_idx[1])
               /\ payload' = "move"
          ELSE /\ pc' = "PatternFail"
               /\ UNCHANGED <<ran, payload>>
    /\ UNCHANGED notDispatch
    /\ UNCHANGED <<is_move, protocol, handle, arms, idx, matched_idx, probed>>

\* RefProbe returning the body without testing the arm's pattern
RefProbeSkipsPattern ==
    /\ ~is_move /\ pc = "probe" /\ idx < Len(arms)
    /\ probed' = Append(probed, idx)
    /\ IF RefProbeOk(arms[idx + 1], handle)
       THEN /\ pc' = "Extracted"
            /\ ran' = Append(ran, idx)
            /\ payload' = "ref"
            /\ UNCHANGED idx
       ELSE /\ idx' = idx + 1
            /\ UNCHANGED <<pc, ran, payload>>
    /\ UNCHANGED notDispatch
    /\ UNCHANGED <<is_move, protocol, handle, arms, matched_idx, consumed>>

\* One arm of the borrowed expansion inside the closure: probe, then bind and
\* `return Some(body)`, or fall through to the next arm.
RefProbe ==
    /\ ~is_move /\ pc = "probe" /\ idx < Len(arms)
    /\ probed' = Append(probed, idx)
    /\ LET arm == arms[idx + 1] IN
       IF ~RefProbeOk(arm, handle)
       THEN /\ idx' = idx + 1
            /\ UNCHANGED <<pc, ran, payload>>
       ELSE IF protocol = "accessor" /\ IsSimpleBinding(arm)
       THEN IF arm.pat = "bindBad"
            THEN /\ pc' = "TypeMismatch"
                 /\ UNCHANGED <<idx, ran, payload>>
            ELSE /\ pc' = "Extracted"
                 /\ ran' = Append(ran, idx)
                 /\ payload' = "ref"
                 /\ UNCHANGED idx
       ELSE IF PatternMatches(arm, handle)
       THEN /\ pc' = "Extracted"
            /\ ran' = Append(ran, idx)
            /\ payload' = "ref"
            /\ UNCHANGED idx
       ELSE /\ idx' = idx + 1
            /\ UNCHANGED <<pc, ran, payload>>
    /\ UNCHANGED notDispatch
    /\ UNCHANGED <<is_move, protocol, handle, arms, matched_idx, consumed>>

\* The closure's trailing `None`, then .expect("No matching type found ..")
RefExhausted ==
    /\ ~is_move /\ pc = "probe" /\ idx = Len(arms)
    /\ pc' = "ExhaustedFail"
    /\ UNCHANGED notDispatch
    /\ UNCHANGED <<is_move, protocol, handle, arms, idx, matched_idx, probed, ran,
                   consumed, payload>>

NextDispatch == MoveProbe \/ MoveSwitch \/ MoveArm \/ RefProbe \/ RefExhausted

SpecDispatch == InitDispatch /\ [][NextDispatch]_vars

(***************************************************************************)
(* Properties of dispatch                                                  *)
(***************************************************************************)
Terminal == pc \notin {"probe", "arm"}

ArmIndices == 0..(Len(arms) - 1)

\* the arms that name the handle's variant
ArmsFor(h) == {k \in ArmIndices : arms[k + 1].variant = h.variant}

Lowest(S) == CHOOSE k \in S : \A j \in S : k <= j

\* C1: in transferred dispatch the index the probe pass recorded is the index of
\* the FIRST arm, in declaration order, that names the handle's type, and the
\* body that runs is that arm's.
C1_FirstMatchRecorded ==
    (is_move /\ pc \in {"arm", "Extracted"}) =>
        /\ matched_idx = <<Lowest(ArmsFor(handle))>>
        /\ (pc = "Extracted" => ran = <<Lowest(ArmsFor(handle))>>)

\* the arms of a borrowed dispatch whose probe succeeds and whose pattern matches
Succeeding(h) ==
    {k \in ArmsFor(h) : arms[k + 1].pat = "lit" => h.val = 1}

\* C2: in borrowed dispatch the arms are probed strictly in declaration order
\* (0, 1, 2, ..), the body that runs is that of the lowest-index arm whose probe
\* succeeds and whose pattern matches, and once it has run no further arm is
\* probed or evaluated.
C2_BorrowedFirstSuccess ==
    ~is_move =>
        /\ probed = [k \in 1..Len(probed) |-> k - 1]
        /\ Len(ran) <= 1
        /\ pc = "Extracted" =>
              /\ Succeeding(handle) # {}
              /\ ran = <<Lowest(Succeeding(handle))>>
              /\ Len(probed) = ran[1] + 1
              /\ ~ENABLED NextDispatch

C2_Witness ==
    /\ ~is_move /\ pc = "Extracted" /\ ran = <<1>>
    /\ Cardinality(ArmsFor(handle)) = 2

ArmBinds(k, h) ==
    /\ arms[k + 1].pat = "lit" => h.val = 1
    /\ (~is_move /\ protocol = "accessor") => arms[k + 1].pat # "bindBad"

C4_MissAborts ==
    ArmsFor(handle) = {} =>
        /\ ran = <<>>
        /\ payload = "none"
        /\ Terminal => pc = "ExhaustedFail"

C4_Witness ==
    /\ pc = "ExhaustedFail" /\ ArmsFor(handle) = {} /\ Len(arms) = 2 /\ ~is_move

\* C5: in transferred dispatch the probe pass never moves the handle, the handle
\* is moved out at most once, and a successful dispatch has moved it exactly once
\* and handed the payload to the body by move.
C5_ConsumedOnce ==
    is_move =>
        /\ consumed <= 1
        /\ pc = "probe" => consumed = 0
        /\ pc = "Extracted" => (consumed = 1 /\ payload = "move")

C5_Witness ==
    /\ is_move /\ pc = "Extracted" /\ consumed = 1 /\ Len(probed) = 2

\* C23: in transferred dispatch, whenever the probe pass has recorded an
\* index, the index is smaller than the number of arms and the arm at that
\* index names the handle's type, so that its downcast succeeds: neither the
\* 'Invalid match index' nor the 'Downcast failed' abort is ever reached.
C23_RecordedIndexIsValid ==
    is_move =>
        /\ pc \notin {"InvalidIndex", "DowncastFail"}
        /\ matched_idx # <<>> =>
              /\ matched_idx[1] < Len(arms)
              /\ TypeIs(arms[matched_idx[1] + 1], handle)

\* the last of two arms is the recorded one, and its downcast was performed
C23_Witness ==
    /\ is_move /\ pc = "Extracted" /\ Len(arms) = 2
    /\ matched_idx = <<1>> /\ consumed = 1 /\ payload = "move"

(***************************************************************************)
(* Type substitution (helpers.rs)                                          *)
(***************************************************************************)
\* tokens: identifiers and punctuation, each a text
A == <<"A">>
B == <<"B">>
AB == <<"A", "B">>
I32 == <<"i", "3", "2">>
Pair == <<"P", "a", "i", "r">>
Vec == <<"V", "e", "c">>
Amp == <<"&">>
LParen == <<"(">>
RParen == <<")">>
Comma == <<",">>
Arrow == <<"-", ">">>
Lt == <<"<">>
Gt == <<">">>
Space == <<" ">>

\* the union's declared parameters, in declaration order
DeclaredParams == <<A, B>>

Idents == {A, B, AB}
SigTokens == Idents \cup {Amp, LParen, RParen, Comma, Arrow}
\* the refinement arguments a variant may write: a name, or a generic type
ArgTypes == {<<A>>, <<B>>, <<I32>>, <<Vec, Lt, I32, Gt>>}

IsIdent(t) == t \notin {Amp, LParen, RParen, Comma, Arrow, Lt, Gt}

\* The separator TokenStream::to_string prints between two adjacent tokens.
\*   "loose"    a space between any two tokens
\*   "fallback" as loose, but none inside a group's delimiters
\*   "tight"    source-like: `f(&A, &B) -> A`
Sep(prev, next, st) ==
    CASE st = "loose" -> Space
      [] st = "fallback" -> IF prev = LParen \/ next = RParen THEN <<>> ELSE Space
      [] OTHER -> IF \/ prev \in {LParen, Amp}
                     \/ next \in {RParen, Comma}
                     \/ (IsIdent(prev) /\ next = LParen)
                  THEN <<>> ELSE Space

\* TokenStream::to_string
RECURSIVE Render(_, _)
Render(toks, st) ==
    IF Len(toks) = 0 THEN <<>>
    ELSE IF Len(toks) = 1 THEN toks[1]
    ELSE toks[1] \o Sep(toks[1], toks[2], st) \o Render(Tail(toks), st)

\* str::replace: every non-overlapping match, left to right
RECURSIVE Replace(_, _, _)
Replace(str, from, to) ==
    IF Len(str) < Len(from) THEN str
    ELSE IF SubSeq(str, 1, Len(from)) = from
    THEN to \o Replace(SubSeq(str, Len(from) + 1, Len(str)), from, to)
    ELSE <<str[1]>> \o Replace(Tail(str), from, to)

Digit(i) == CASE i = 0 -> "0" [] i = 1 -> "1" [] i = 2 -> "2" [] OTHER -> "3"

\* format!("__PLACEHOLDER_{}__", i)
Placeholder(i) ==
    <<"_", "_", "P", "L", "A", "C", "E", "H", "O", "L", "D", "E", "R", "_">>
        \o <<Digit(i)>> \o <<"_", "_">>

\* extract_trait_type_args: the loop over the refinement type's tokens;
\* st = [in_angles, current_arg, args, done]
ExtractStep(st, tt) ==
    IF st.done THEN st
    ELSE IF tt = Lt THEN [st EXCEPT !.in_angles = TRUE]
    ELSE IF tt = Gt
    THEN [st EXCEPT !.args = IF st.current_arg # <<>>
                             THEN Append(st.args, st.current_arg) ELSE st.args,
                    !.current_arg = <<>>,
                    !.done = TRUE]
    ELSE IF tt = Comma /\ st.in_angles
    THEN [st EXCEPT !.args = IF st.current_arg # <<>>
                             THEN Append(st.args, st.current_arg) ELSE st.args,
                    !.current_arg = <<>>]
    ELSE IF st.in_angles THEN [st EXCEPT !.current_arg = Append(st.current_arg, tt)]
    ELSE st

RECURSIVE ExtractLoop(_, _)
ExtractLoop(st, toks) ==
    IF toks = <<>> THEN st ELSE ExtractLoop(ExtractStep(st, Head(toks)), Tail(toks))

extract_trait_type_args(tt) ==
    ExtractLoop([in_angles |-> FALSE, current_arg |-> <<>>, args |-> <<>>,
                 done |-> FALSE], tt).args

\* `i < trait_type_args.len()`
HasArg(i) == i < Len(trait_type_args)

\* PassOne writing the refinement argument where the placeholder belongs
PassOneDirect(str, i, enum_param) ==
    LET ph == Render(trait_type_args[i + 1], style)
        r1 == Replace(str, Amp \o Space \o enum_param, Amp \o ph)
        r2 == Replace(r1, Amp \o enum_param, Amp \o ph)
        r3 == Replace(r2, LParen \o Space \o enum_param, LParen \o ph)
        r4 == Replace(r3, LParen \o enum_param, LParen \o ph)
        r5 == Replace(r4, enum_param \o Space \o Comma, ph \o Comma)
        r6 == Replace(r5, enum_param \o Comma, ph \o Comma)
        r7 == Replace(r6, enum_param \o Space \o RParen, ph \o RParen)
        r8 == Replace(r7, enum_param \o RParen, ph \o RParen)
    IN Replace(r8, Arrow \o Space \o enum_param, Arrow \o Space \o ph)

\* the nine chained replaces of the first pass, for parameter i
PassOne(str, i, enum_param) ==
    LET ph == Placeholder(i)
        r1 == Replace(str, Amp \o Space \o enum_param, Amp \o ph)
        r2 == Replace(r1, Amp \o enum_param, Amp \o ph)
        r3 == Replace(r2, LParen \o Space \o enum_param, LParen \o ph)
        r4 == Replace(r3, LParen \o enum_param, LParen \o ph)
        r5 == Replace(r4, enum_param \o Space \o Comma, ph \o Comma)
        r6 == Replace(r5, enum_param \o Comma, ph \o Comma)
        r7 == Replace(r6, enum_param \o Space \o RParen, ph \o RParen)
        r8 == Replace(r7, enum_param \o RParen, ph \o RParen)
    IN Replace(r8, Arrow \o Space \o enum_param, Arrow \o Space \o ph)

\* one iteration of the second pass: the placeholder becomes the argument's text
PassTwo(str, i) == Replace(str, Placeholder(i), Render(trait_type_args[i + 1], style))

\* the refinement types: a bare name, or a name with an argument list
RECURSIVE JoinArgs(_)
JoinArgs(args) ==
    IF Len(args) = 1 THEN args[1]
    ELSE args[1] \o <<Comma>> \o JoinArgs(Tail(args))

MkTraitType(args) ==
    IF args = <<>> THEN <<Pair>> ELSE <<Pair, Lt>> \o JoinArgs(args) \o <<Gt>>

\* a group's delimiters come in pairs
RECURSIVE Depths(_, _)
Depths(toks, d) ==
    IF toks = <<>> THEN d = 0
    ELSE IF Head(toks) = LParen THEN Depths(Tail(toks), d + 1)
    ELSE IF Head(toks) = RParen THEN d > 0 /\ Depths(Tail(toks), d - 1)
    ELSE Depths(Tail(toks), d)

InitSubst ==
    /\ IdleExceptSubst
    /\ sig \in {t \in UNION {[1..n -> SigTokens] : n \in 1..MaxSigLen} : Depths(t, 0)}
    /\ style \in {"loose", "fallback", "tight"}
    /\ enum_params \in {SubSeq(DeclaredParams, 1, n) : n \in 1..Len(DeclaredParams)}
    /\ trait_type \in {MkTraitType(a) : a \in UNION {[1..k -> ArgTypes] : k \in 0..Len(DeclaredParams)}}
    /\ trait_type_args = <<>>
    /\ result = <<>>
    /\ spc = "start"

\* let trait_type_args = extract_trait_type_args(trait_type); the early return
SubstStart ==
    /\ spc = "start"
    /\ trait_type_args' = extract_trait_type_args(trait_type)
    /\ result' = Render(sig, style)
    /\ spc' = IF extract_trait_type_args(trait_type) = <<>> THEN "done" ELSE "pass1"
    /\ UNCHANGED <<sig, style, enum_params, trait_type>>
    /\ UNCHANGED notSubst

\* for (i, enum_param) in enum_params.iter().enumerate() { if i < len { replace.. } }
RECURSIVE PassOneLoop(_, _)
PassOneLoop(str, i) ==
    IF i >= Len(enum_params) THEN str
    ELSE PassOneLoop(IF HasArg(i) THEN PassOne(str, i, enum_params[i + 1]) ELSE str,
                     i + 1)

\* for (i, _) in enum_params.iter().enumerate() { if i < len { replace placeholder } }
RECURSIVE PassTwoLoop(_, _)
PassTwoLoop(str, i) ==
    IF i >= Len(enum_params) THEN str
    ELSE PassTwoLoop(IF HasArg(i) THEN PassTwo(str, i) ELSE str, i + 1)

\* First pass: replace each enum param with a placeholder
SubstPassOne ==
    /\ spc = "pass1"
    /\ result' = PassOneLoop(result, 0)
    /\ spc' = "pass2"
    /\ UNCHANGED <<sig, style, enum_params, trait_type, trait_type_args>>
    /\ UNCHANGED notSubst

\* Second pass: replace placeholders with actual trait type args; return result
SubstPassTwo ==
    /\ spc = "pass2"
    /\ result' = PassTwoLoop(result, 0)
    /\ spc' = "done"
    /\ UNCHANGED <<sig, style, enum_params, trait_type, trait_type_args>>
    /\ UNCHANGED notSubst

NextSubst == SubstStart \/ SubstPassOne \/ SubstPassTwo

SpecSubst == InitSubst /\ [][NextSubst]_vars
\* new_sig_str.parse(): the signature text lexed back into tokens
RECURSIVE Lex(_, _, _, _)
Lex(str, i, cur, out) ==
    IF i > Len(str) THEN (IF cur = <<>> THEN out ELSE Append(out, cur))
    ELSE LET c == str[i]
             flush == IF cur = <<>> THEN out ELSE Append(out, cur)
         IN IF c = " " THEN Lex(str, i + 1, <<>>, flush)
            ELSE IF c = "-" /\ i < Len(str) /\ str[i + 1] = ">"
            THEN Lex(str, i + 2, <<>>, Append(flush, Arrow))
            ELSE IF c \in {"&", "(", ")", ",", "<", ">", "-"}
            THEN Lex(str, i + 1, <<>>, Append(flush, <<c>>))
            ELSE Lex(str, i + 1, Append(cur, c), out)

Tokenize(str) == Lex(str, 1, <<>>, <<>>)

(***************************************************************************)
(* Properties of substitution                                              *)
(***************************************************************************)
\* position p of the signature is adjacent to one of the listed punctuation
\* contexts: after `&`, `(` or `->`, or before `,` or `)`
InContext(p) ==
    \/ (p > 1 /\ sig[p - 1] \in {Amp, LParen, Arrow})
    \/ (p < Len(sig) /\ sig[p + 1] \in {Comma, RParen})

\* the 0-based indices of the declared parameters of this union
ParamIndices == 0..(Len(enum_params) - 1)

\* the refinement's arguments as the declaration writes them: the top-level
\* comma-separated entries of the outermost angle brackets
RECURSIVE SplitArgs(_, _, _, _)
SplitArgs(toks, depth, cur, out) ==
    IF toks = <<>> THEN out
    ELSE LET t == Head(toks)
         IN IF t = Lt
            THEN SplitArgs(Tail(toks), depth + 1,
                           IF depth = 0 THEN cur ELSE Append(cur, t), out)
            ELSE IF t = Gt
            THEN IF depth = 1 THEN Append(out, cur)
                 ELSE SplitArgs(Tail(toks), depth - 1, Append(cur, t), out)
            ELSE IF t = Comma /\ depth = 1
            THEN SplitArgs(Tail(toks), depth, <<>>, Append(out, cur))
            ELSE SplitArgs(Tail(toks), depth,
                           IF depth = 0 THEN cur ELSE Append(cur, t), out)

WrittenArgs == SplitArgs(trait_type, 0, <<>>, <<>>)

\* every written argument is a single name
FlatArgs == \A k \in 1..Len(WrittenArgs) : Len(WrittenArgs[k]) = 1

IsPermutation ==
    /\ Len(WrittenArgs) = Len(enum_params)
    /\ {WrittenArgs[k] : k \in 1..Len(WrittenArgs)}
           = {<<enum_params[k]>> : k \in 1..Len(enum_params)}

\* the tokens that should stand where token p of the signature stood: the
\* i-th written argument for an in-context token of parameter i that has one
Expected(p) ==
    IF \E i \in ParamIndices :
          sig[p] = enum_params[i + 1] /\ i < Len(WrittenArgs) /\ InContext(p)
    THEN WrittenArgs[CHOOSE k \in 1..Len(enum_params) : sig[p] = enum_params[k]]
    ELSE <<sig[p]>>

\* where the tokens for signature token p start in the output
RECURSIVE OutPos(_)
OutPos(p) == IF p = 1 THEN 1 ELSE OutPos(p - 1) + Len(Expected(p - 1))

\* the output tokens standing where token p of the signature stood
OutAt(p) ==
    LET out == Tokenize(result)
    IN [k \in 1..Len(Expected(p)) |->
           IF OutPos(p) + k - 1 <= Len(out) THEN out[OutPos(p) + k - 1] ELSE <<>>]

\* C6: when the refinement's arguments are a permutation of the union's
\* parameters, every occurrence of parameter Pi that stands as a token in a
\* listed context comes out as exactly the i-th refinement argument (a result
\* written for one parameter is not rewritten for another), token for token.
C6_SimultaneousUnderPermutation ==
    (spc = "done" /\ IsPermutation) =>
        /\ Len(Tokenize(result)) = Len(sig)
        /\ \A p \in 1..Len(sig) : \A i \in ParamIndices :
              (sig[p] = enum_params[i + 1] /\ InContext(p)) =>
                  <<Tokenize(result)[p]>> = WrittenArgs[i + 1]

C6_Witness ==
    /\ spc = "done" /\ enum_params = <<A, B>> /\ WrittenArgs = <<<<B>>, <<A>>>>
    /\ sig = <<Amp, A>> /\ Tokenize(result) = <<Amp, B>>

\* C7: the first pass rewrites only complete parameter tokens in a listed
\* context: every other token of the signature, in particular an identifier that
\* merely contains a parameter name, comes out unchanged (stated for
\* refinements whose arguments are single names).
C7_OnlyWholeTokens ==
    (spc = "done" /\ FlatArgs) =>
        /\ Len(Tokenize(result)) = Len(sig)
        /\ \A p \in 1..Len(sig) :
              Tokenize(result)[p] # sig[p] =>
                  /\ \E i \in ParamIndices : sig[p] = enum_params[i + 1]
                  /\ InContext(p)

\* C8: arguments map to parameters by position whatever the two counts are:
\* with k written arguments, an in-context token of parameter i < min(k, n)
\* comes out as argument i, every token of a parameter with index >= k comes
\* out as written, and a refinement with no argument list returns the signature
\* text unchanged.
C8_PositionalMapping ==
    spc = "done" =>
        /\ \A p \in 1..Len(sig) : \A i \in ParamIndices :
              sig[p] = enum_params[i + 1] =>
                  IF i < Len(WrittenArgs)
                  THEN InContext(p) => OutAt(p) = WrittenArgs[i + 1]
                  ELSE OutAt(p) = <<sig[p]>>
        /\ Lt \notin {trait_type[k] : k \in 1..Len(trait_type)} =>
              result = Render(sig, style)

\* C8 for refinements whose arguments are single names
C8_FlatPositionalMapping == FlatArgs => C8_PositionalMapping

\* C28: extract_trait_type_args returns one entry per top-level
\* comma-separated argument of the refinement type, in order, each holding the
\* argument's complete tokens, also when an argument holds angle brackets.
C28_ArgsAreTopLevelEntries ==
    spc \in {"pass1", "pass2", "done"} => trait_type_args = WrittenArgs

\* the same, of refinements whose arguments are single names
C28_FlatArgsAreEntries ==
    (spc \in {"pass1", "pass2", "done"} /\ FlatArgs) => trait_type_args = WrittenArgs

(***************************************************************************)
(* Generation                                                              *)
(***************************************************************************)
Generators == {"type_enum", "variant_gen", "codegen"}

\* syn::Fields
FieldShapes == {"Named", "Unnamed", "Unit"}

\* where a variant's interface comes from: its `: Type` refinement, an
\* #[impl_trait(..)] attribute, or neither
TraitSources == {"explicit", "attr", "none"}

\* the shared operations a declaration may carry
MethodNames == <<"eval">>

BinderE == <<"e">>

\* VariantDef.param_types of the indexed syntax: each a type, as one token
ParamTypeLists == {<<>>, <<"L">>, <<"L", "R">>}

\* VariantDef.variant_generics
VariantGenericLists == {<<>>, <<"X">>}

\* quote!'s `(#(&#tys),*)`: the types as references, separated by commas
RECURSIVE RefList(_)
RefList(tys) ==
    IF tys = <<>> THEN <<>>
    ELSE <<"&", Head(tys)>> \o (IF Len(tys) > 1 THEN <<",">> ELSE <<>>)
         \o RefList(Tail(tys))

\* `(0..param_count).map(|_| quote! { &dyn std::any::Any })`, comma-separated
RECURSIVE AnyRefList(_)
AnyRefList(n) ==
    IF n = 0 THEN <<>>
    ELSE <<"&", "dyn", "Any">> \o (IF n > 1 THEN <<",">> ELSE <<>>) \o AnyRefList(n - 1)

\* generate_trait: the accessor's declared return type, inside Option<..>
TraitAccessorReturn(variant) ==
    LET param_count == Len(variant.param_types)
        has_variant_generics == variant.variant_generics # <<>>
    IN IF param_count = 0 THEN <<"(", ")">>
       ELSE IF param_count = 1 /\ ~has_variant_generics
       THEN <<"&", variant.param_types[1]>>
       ELSE IF param_count = 1 /\ has_variant_generics THEN <<"&", "dyn", "Any">>
       ELSE IF ~has_variant_generics
       THEN <<"(">> \o RefList(variant.param_types) \o <<")">>
       ELSE <<"(">> \o AnyRefList(param_count) \o <<")">>

\* an accessor_impl that never erases a field's type
ImplAccessorReturnDirect(variant) ==
    LET param_count == Len(variant.param_types)
    IN IF param_count = 0 THEN <<"(", ")">>
       ELSE IF param_count = 1 THEN <<"&", variant.param_types[1]>>
       ELSE <<"(">> \o RefList(variant.param_types) \o <<")">>

\* generate_variant_struct: accessor_impl's return type, inside Option<..>
ImplAccessorReturn(variant) ==
    LET param_count == Len(variant.param_types)
        has_variant_generics == variant.variant_generics # <<>>
        any_count == param_count
    IN IF param_count = 0 THEN <<"(", ")">>
       ELSE IF param_count = 1 /\ ~has_variant_generics
       THEN <<"&", variant.param_types[1]>>
       ELSE IF param_count = 1 /\ has_variant_generics THEN <<"&", "dyn", "Any">>
       ELSE IF ~has_variant_generics
       THEN <<"(">> \o RefList(variant.param_types) \o <<")">>
       ELSE <<"(">> \o AnyRefList(any_count) \o <<")">>

\* what each expansion reads of a variant
VariantDefs(g) ==
    IF g = "variant_gen"
    THEN [name : VariantNames, fields : FieldShapes, trait : TraitSources]
    ELSE IF g = "type_enum"
    THEN [name : VariantNames, fields : FieldShapes, trait : {"none"}]
    ELSE {[name |-> n, fields |-> IF p = <<>> THEN "Unit" ELSE "Unnamed",
           trait |-> "none", param_types |-> p, variant_generics |-> vg] :
             n \in DeclarableNames, p \in ParamTypeLists, vg \in VariantGenericLists}

\* a declaration's variants carry distinct names
VariantLists(g) ==
    {vs \in UNION {[1..n -> VariantDefs(g)] : n \in 0..MaxVariants} :
        \A j, k \in 1..Len(vs) : vs[j].name = vs[k].name => j = k}

\* MethodArm: the pattern is a constructor of the declaration applied to a binder
MethodArmLists(vs) ==
    UNION {[1..k -> [ctor : {vs[j].name : j \in 1..Len(vs)}]] : k \in 0..MaxMethodArms}

MethodLists(vs) ==
    UNION {[1..m -> MethodArmLists(vs)] : m \in 0..Len(MethodNames)}

\* arm.pattern.to_string()
PatternString(arm) == Render(<<arm.ctor, LParen, BinderE, RParen>>, "fallback")

\* str::contains
Contains(str, sub) ==
    \E i \in 1..(Len(str) - Len(sub) + 1) : SubSeq(str, i, i + Len(sub) - 1) = sub

\* the arms kept by the filter, as 1-based positions in method.arms
matching_arms(variant, method) ==
    {k \in 1..Len(method) : Contains(PatternString(method[k]), variant.name)}

\* None is <<>>; Some(method_impl) is <<[method, arm, pattern]>>, arm 0-based
generate_method_body(variant, m) ==
    IF matching_arms(variant, methods[m]) = {} THEN <<>>
    ELSE LET first == CHOOSE k \in matching_arms(variant, methods[m]) :
                          \A j \in matching_arms(variant, methods[m]) : k <= j
         IN <<[method |-> MethodNames[m], arm |-> first - 1,
               pattern |-> methods[m][first].ctor]>>

\* methods.iter().filter_map(generate_method_body).collect()
RECURSIVE method_impls(_, _)
method_impls(variant, m) ==
    IF m > Len(methods) THEN <<>>
    ELSE generate_method_body(variant, m) \o method_impls(variant, m + 1)

\* generate_combined_trait_impl that emits nothing for a variant without bodies
CombinedTraitImplSkipsEmpty(variant, trait_ty) ==
    IF method_impls(variant, 1) = <<>> THEN <<>>
    ELSE <<[kind |-> "impl_trait", name |-> variant.name, shape |-> trait_ty,
            body |-> method_impls(variant, 1)]>>

generate_combined_trait_impl(variant, trait_ty) ==
    IF method_impls(variant, 1) = <<>>
    THEN <<[kind |-> "impl_trait", name |-> variant.name, shape |-> trait_ty,
            body |-> <<>>]>>
    ELSE <<[kind |-> "impl_trait", name |-> variant.name, shape |-> trait_ty,
            body |-> method_impls(variant, 1)]>>

\* variant_gen.rs generate_variant_struct: one struct whatever the fields
generate_variant_struct(variant) ==
    CASE variant.fields = "Named" ->
           [kind |-> "struct", name |-> variant.name, shape |-> "Named", body |-> <<>>]
      [] variant.fields = "Unnamed" ->
           [kind |-> "struct", name |-> variant.name, shape |-> "Unnamed", body |-> <<>>]
      [] OTHER ->
           [kind |-> "struct", name |-> variant.name, shape |-> "Unit", body |-> <<>>]

InitGen ==
    /\ IdleExceptGen
    /\ generator \in Generators
    /\ variants \in VariantLists(generator)
    /\ methods \in (IF generator = "variant_gen" THEN MethodLists(variants) ELSE {<<>>})
    /\ gi = 0
    /\ items = <<>>
    /\ gpc = "gen"

\* #[type_enum]: the closure over data.variants, one variant per step
TypeEnumVariant ==
    /\ generator = "type_enum" /\ gpc = "gen" /\ gi < Len(variants)
    /\ LET variant == variants[gi + 1]
       IN items' = items \o
              << generate_variant_struct(variant),
                 [kind |-> "impl_trait", name |-> variant.name, shape |-> "base",
                  body |-> <<>>] >>
    /\ gi' = gi + 1
    /\ UNCHANGED <<generator, variants, methods, gpc>>
    /\ UNCHANGED notGen

\* generate_variant_code for the next variant: struct_def, then trait_impl
GenerateVariantCode ==
    /\ generator = "variant_gen" /\ gpc = "gen" /\ gi < Len(variants)
    /\ LET variant == variants[gi + 1]
           trait_impl ==
               IF variant.trait = "explicit"
               THEN generate_combined_trait_impl(variant, "explicit")
               ELSE IF variant.trait = "attr"
               THEN generate_combined_trait_impl(variant, "attr")
               ELSE generate_combined_trait_impl(variant, "base")
       IN items' = items \o <<generate_variant_struct(variant)>> \o trait_impl
    /\ gi' = gi + 1
    /\ UNCHANGED <<generator, variants, methods, gpc>>
    /\ UNCHANGED notGen

\* codegen.rs generate_variant_struct for the next variant: the struct, its
\* inherent impl with `new`, and the trait impl carrying the accessor
CodegenVariantStruct ==
    /\ generator = "codegen" /\ gpc = "gen" /\ gi < Len(variants)
    /\ LET variant == variants[gi + 1]
           accessor == <<[method |-> AccessorName(variant.name), arm |-> 0,
                          pattern |-> variant.name,
                          ret |-> ImplAccessorReturn(variant)]>>
       IN items' = items \o
              << [kind |-> "struct", name |-> variant.name,
                  shape |-> IF variant.fields = "Unit" THEN "Phantom" ELSE "Tuple",
                  body |-> <<>>],
                 [kind |-> "impl_inherent", name |-> variant.name, shape |-> "new",
                  body |-> <<>>],
                 [kind |-> "impl_trait", name |-> variant.name, shape |-> "base",
                  body |-> accessor] >>
    /\ gi' = gi + 1
    /\ UNCHANGED <<generator, variants, methods, gpc>>
    /\ UNCHANGED notGen

\* every variant expanded: the items are spliced into the output
\* codegen.rs generate_trait: one hidden accessor per variant, defaulting to None
RECURSIVE variant_methods(_)
variant_methods(vs) ==
    IF vs = <<>> THEN <<>>
    ELSE <<[method |-> AccessorName(Head(vs).name), arm |-> 0, pattern |-> <<>>,
            ret |-> TraitAccessorReturn(Head(vs))]>>
         \o variant_methods(Tail(vs))

EnumName == <<"A", "r", "i", "t", "h">>

\* the interface item each expansion puts in front of the variants' items
trait_def ==
    IF generator = "codegen"
    THEN <<[kind |-> "trait", name |-> EnumName, shape |-> "base",
            body |-> variant_methods(variants)]>>
    ELSE IF generator = "type_enum"
    THEN <<[kind |-> "trait", name |-> EnumName, shape |-> "base", body |-> <<>>]>>
    ELSE <<>>

GenFinish ==
    /\ gpc = "gen" /\ gi = Len(variants)
    /\ gpc' = "done"
    /\ items' = trait_def \o items
    /\ UNCHANGED <<generator, variants, methods, gi>>
    /\ UNCHANGED notGen

NextGen == TypeEnumVariant \/ GenerateVariantCode \/ CodegenVariantStruct \/ GenFinish

SpecGen == InitGen /\ [][NextGen]_vars

(***************************************************************************)
(* Properties of generation                                                *)
(***************************************************************************)
ItemsOfKind(kind) == SelectSeq(items, LAMBDA it : it.kind = kind)

\* the arms of a method that name the variant: the pattern's constructor is it
NamingArms(variant, method) == {k \in 1..Len(method) : method[k].ctor = variant.name}

\* the trait impls emitted so far for variant number j
ImplsFor(j) == SelectSeq(items, LAMBDA it : it.kind = "impl_trait"
                                            /\ it.name = variants[j].name)

\* C9: for every shared operation M and variant V, the body generated for V is
\* taken from the first arm of M whose pattern names V, no body is generated
\* when no arm of M names V, and an arm naming another variant is never used.
C9_FirstNamingArm ==
    (generator = "variant_gen" /\ gpc = "done") =>
        \A j \in 1..Len(variants) : \A m \in 1..Len(methods) :
            LET bodies == SelectSeq(ImplsFor(j)[1].body,
                                    LAMBDA b : b.method = MethodNames[m])
                naming == NamingArms(variants[j], methods[m])
            IN IF naming = {} THEN bodies = <<>>
               ELSE /\ Len(bodies) = 1
                    /\ bodies[1].pattern = variants[j].name
                    /\ bodies[1].arm + 1 \in naming
                    /\ \A k \in naming : bodies[1].arm + 1 <= k

\* C10: a finished generation has emitted exactly one record type per variant,
\* in declaration order, and exactly one implementation block of the variant's
\* interface per variant, whatever the field shapes, interface sources and
\* shared operations; while it runs, that holds of the variants expanded so far.
C10_OneStructOneImplPerVariant ==
    gpc \in {"gen", "done"} =>
        /\ gpc = "done" => gi = Len(variants)
        /\ Len(ItemsOfKind("struct")) = gi
        /\ \A j \in 1..gi : ItemsOfKind("struct")[j].name = variants[j].name
        /\ Len(ItemsOfKind("impl_trait")) = gi
        /\ \A j \in 1..gi : Len(ImplsFor(j)) = 1

\* two variants of different shapes, one of them without any body
C10_Witness ==
    /\ generator = "variant_gen" /\ gpc = "done" /\ Len(variants) = MaxVariants
    /\ Len(methods) = 1 /\ Len(methods[1]) > 0
    /\ \E j \in 1..Len(variants) : ImplsFor(j)[1].body = <<>>
    /\ \E j \in 1..Len(variants) : ImplsFor(j)[1].body # <<>>
    /\ variants[1].fields # variants[2].fields
    /\ variants[1].trait # variants[2].trait

(***************************************************************************)
(* Properties of the hidden accessors                                      *)
(***************************************************************************)
\* method resolution of `record_of_V.__as_w()`: the override in V's impl block
\* if it has one of that name, else the interface's default
InvokeAccessor(w, v) ==
    LET name == AccessorName(variants[w].name)
        overrides == {k \in 1..Len(ImplsFor(v)[1].body) :
                         ImplsFor(v)[1].body[k].method = name}
        defaults == {k \in 1..Len(ItemsOfKind("trait")[1].body) :
                        ItemsOfKind("trait")[1].body[k].method = name}
    IN IF overrides # {} THEN "Some"
       ELSE IF defaults # {} THEN "None"
       ELSE "NoMethod"

LowerDistinct ==
    \A j, k \in 1..Len(variants) :
        ToLower(variants[j].name) = ToLower(variants[k].name) => j = k

\* C11: in a declaration whose variant names are pairwise distinct after
\* lower-casing, the accessor of variant W called on a record of variant V
\* returns Some exactly when W = V, and the interface's default None otherwise.
C11_AccessorSomeIffSame ==
    (generator = "codegen" /\ gpc = "done" /\ LowerDistinct) =>
        \A v, w \in 1..Len(variants) :
            InvokeAccessor(w, v) = IF w = v THEN "Some" ELSE "None"

C11_Witness ==
    /\ generator = "codegen" /\ gpc = "done" /\ LowerDistinct
    /\ Len(variants) = 2 /\ variants[1].name = Num /\ variants[2].name = ToNum
    /\ InvokeAccessor(1, 1) = "Some" /\ InvokeAccessor(1, 2) = "None"
    /\ InvokeAccessor(2, 1) = "None" /\ InvokeAccessor(2, 2) = "Some"

\* C29: the accessor names derived from the variant names are injective
\* within one declaration: two distinct variants never get the same accessor
\* name, so the accessor called for an arm naming variant W returns Some on
\* W's record and on no other variant's record.
C29_AccessorNamesInjective ==
    (generator = "codegen" /\ gpc = "done") =>
        LET declared == ItemsOfKind("trait")[1].body
        IN /\ \A j, k \in 1..Len(declared) :
                 declared[j].method = declared[k].method => j = k
           /\ \A v, w \in 1..Len(variants) :
                 InvokeAccessor(w, v) = "Some" <=> w = v

\* the accessor variant j's interface declares, and the one its impl block emits
DeclaredAccessor(j) == ItemsOfKind("trait")[1].body[j]

EmittedAccessor(j) == ImplsFor(j)[1].body[1]

\* the return type the claim names for a variant's field count and generics
AccessorReturnForm(variant) ==
    LET n == Len(variant.param_types)
    IN IF n = 0 THEN "unit"
       ELSE IF variant.variant_generics = <<>>
       THEN (IF n = 1 THEN "reference" ELSE "references")
       ELSE (IF n = 1 THEN "capsule" ELSE "capsules")

\* the form of a return type, read off its tokens
FormOf(ret) ==
    IF ret = <<"(", ")">> THEN "unit"
    ELSE IF ret = <<"&", "dyn", "Any">> THEN "capsule"
    ELSE IF Head(ret) = "&" THEN "reference"
    ELSE IF \E i \in 1..Len(ret) : ret[i] = "dyn" THEN "capsules"
    ELSE "references"

\* C22: for every variant of an indexed declaration, whatever its field
\* count and whether or not it has local type parameters, the accessor return
\* type declared in the interface is the one emitted in the variant's
\* implementation block: unit for no field, a reference or tuple of references
\* without local parameters, a capsule or tuple of capsules with them.
C22_AccessorReturnTypesAgree ==
    (generator = "codegen" /\ gpc = "done") =>
        \A j \in 1..Len(variants) :
            /\ DeclaredAccessor(j).method = EmittedAccessor(j).method
            /\ DeclaredAccessor(j).ret = EmittedAccessor(j).ret
            /\ FormOf(EmittedAccessor(j).ret) = AccessorReturnForm(variants[j])

\* a two-field variant with a local parameter next to a one-field one without
C22_Witness ==
    /\ generator = "codegen" /\ gpc = "done" /\ Len(variants) = 2
    /\ Len(variants[1].param_types) = 2 /\ variants[1].variant_generics # <<>>
    /\ Len(variants[2].param_types) = 1 /\ variants[2].variant_generics = <<>>
    /\ EmittedAccessor(1).ret = <<"(", "&", "dyn", "Any", ",", "&", "dyn", "Any", ")">>
    /\ DeclaredAccessor(2).ret = <<"&", "L">>

(***************************************************************************)
(* Parameter analysis                                                      *)
(***************************************************************************)
\* syn::Type, as far as the walk tells its forms apart:
\*   Path       `id` or `id<args>`          Reference  `&elem`
\*   Tuple      `(elems)`                   Array      `[elem; n]`
\*   Ptr        `*const elem`               Slice      `[elem]`
\*   Paren      `(elem)`                    BareFn     `fn(elem)`
\*   TraitObject `dyn Tr<elem>`
WalkedKinds == {"Reference", "Array", "Ptr", "Slice", "Paren"}
OtherKinds == {"BareFn", "TraitObject"}

LeafTypes == {[k |-> "Path", id |-> x, args |-> <<>>] : x \in {A, B, I32}}

RECURSIVE Types(_)
Types(d) ==
    IF d = 0 THEN LeafTypes
    ELSE LeafTypes
         \cup {[k |-> kind, elem |-> t] : kind \in WalkedKinds \cup OtherKinds,
                                          t \in Types(d - 1)}
         \cup {[k |-> "Path", id |-> Vec, args |-> <<t>>] : t \in Types(d - 1)}
         \cup {[k |-> "Tuple", elems |-> <<a, b>>] : a, b \in LeafTypes}

\* syn::Fields with the field types
FieldLists ==
    {[shape |-> "Unit", tys |-> <<>>]}
    \cup {[shape |-> sh, tys |-> <<t>>] : sh \in {"Named", "Unnamed"},
                                          t \in Types(MaxTypeDepth)}
    \cup {[shape |-> "Unnamed", tys |-> <<a, b>>] : a, b \in LeafTypes}

\* the applicable interface types a variant may have
InterfaceTypes ==
    {MkTraitType(a) : a \in {<<>>, <<<<A>>>>, <<<<I32>>>>, <<<<B>>, <<A>>>>,
                             <<<<A>>, <<B>>>>, <<<<Vec, Lt, B, Gt>>>>}}

\* collect_type_params: the walk over one type
RECURSIVE collect_type_params(_, _)
collect_type_params(ty, available) ==
    CASE ty.k = "Path" ->
           (IF ty.id \in available THEN {ty.id} ELSE {})
           \cup UNION {collect_type_params(ty.args[i], available) :
                          i \in 1..Len(ty.args)}
      [] ty.k \in WalkedKinds -> collect_type_params(ty.elem, available)
      [] ty.k = "Tuple" ->
           UNION {collect_type_params(ty.elems[i], available) :
                     i \in 1..Len(ty.elems)}
      [] OTHER -> {}

collect_variant_type_params(fs, available) ==
    CASE fs.shape = "Named" ->
           UNION {collect_type_params(fs.tys[i], available) : i \in 1..Len(fs.tys)}
      [] fs.shape = "Unnamed" ->
           UNION {collect_type_params(fs.tys[i], available) : i \in 1..Len(fs.tys)}
      [] OTHER -> {}

\* collect_all_type_param_names
collect_all_type_param_names(ordered) == {ordered[i] : i \in 1..Len(ordered)}

\* the record's generics: the declared parameters the fields use, in order
build_variant_generics(ordered, used) == SelectSeq(ordered, LAMBDA p : p \in used)

\* extract_type_params_from_trait: every identifier token that is a parameter
extract_type_params_from_trait(toks, all) ==
    {toks[i] : i \in 1..Len(toks)} \cap all

\* used_params built from the interface type alone
UsedParamsTraitOnly(trait_ty, ty_generics, all) ==
    extract_type_params_from_trait(trait_ty, all)

\* used_params = trait_type_params, extended by variant_type_params
used_params(trait_ty, ty_generics, all) ==
    extract_type_params_from_trait(trait_ty, all)
    \cup extract_type_params_from_trait(ty_generics, all)

InitAnalysis ==
    /\ IdleExceptAnalysis
    /\ fields \in FieldLists
    /\ all_type_params_ordered \in
           {SubSeq(DeclaredParams, 1, n) : n \in 0..Len(DeclaredParams)}
    /\ variant_trait_type \in InterfaceTypes
    /\ struct_type_params = {}
    /\ filtered_impl_generics = <<>>
    /\ apc = "collect"

\* generate_variant_code: struct_type_params = collect_variant_type_params(..)
CollectVariantTypeParams ==
    /\ apc = "collect"
    /\ struct_type_params' =
           collect_variant_type_params(fields,
               collect_all_type_param_names(all_type_params_ordered))
    /\ apc' = "impl"
    /\ UNCHANGED <<fields, all_type_params_ordered, variant_trait_type,
                   filtered_impl_generics>>
    /\ UNCHANGED notAnalysis

\* generate_combined_trait_impl: filtered_impl_generics
FilterImplGenerics ==
    /\ apc = "impl"
    /\ LET all == collect_all_type_param_names(all_type_params_ordered)
           variant_ty_generics ==
               build_variant_generics(all_type_params_ordered, struct_type_params)
           used == used_params(variant_trait_type, variant_ty_generics, all)
       IN filtered_impl_generics' =
              IF used = {} THEN <<>>
              ELSE SelectSeq(all_type_params_ordered, LAMBDA p : p \in used)
    /\ apc' = "done"
    /\ UNCHANGED <<fields, all_type_params_ordered, variant_trait_type,
                   struct_type_params>>
    /\ UNCHANGED notAnalysis

NextAnalysis == CollectVariantTypeParams \/ FilterImplGenerics

SpecAnalysis == InitAnalysis /\ [][NextAnalysis]_vars

(***************************************************************************)
(* Properties of parameter analysis                                        *)
(***************************************************************************)
\* the identifiers a type mentions, whatever form they stand under
RECURSIVE Mentioned(_)
Mentioned(ty) ==
    CASE ty.k = "Path" ->
           {ty.id} \cup UNION {Mentioned(ty.args[i]) : i \in 1..Len(ty.args)}
      [] ty.k = "Tuple" -> UNION {Mentioned(ty.elems[i]) : i \in 1..Len(ty.elems)}
      [] OTHER -> Mentioned(ty.elem)

DeclaredSet == {all_type_params_ordered[i] : i \in 1..Len(all_type_params_ordered)}

FieldsMention == UNION {Mentioned(fields.tys[i]) : i \in 1..Len(fields.tys)}

\* C12: collect_variant_type_params returns exactly the declared parameters
\* that occur somewhere in the variant's field types, at any depth and under
\* any type constructor.
C12_ExactlyMentioned ==
    apc \in {"impl", "done"} => struct_type_params = FieldsMention \cap DeclaredSet

\* a type built only from the forms the walk descends into
RECURSIVE OnlyWalkedForms(_)
OnlyWalkedForms(ty) ==
    CASE ty.k = "Path" -> \A i \in 1..Len(ty.args) : OnlyWalkedForms(ty.args[i])
      [] ty.k = "Tuple" -> \A i \in 1..Len(ty.elems) : OnlyWalkedForms(ty.elems[i])
      [] ty.k \in WalkedKinds -> OnlyWalkedForms(ty.elem)
      [] OTHER -> FALSE

\* C12 restricted to field types built from path, reference, tuple, array,
\* pointer, slice and parenthesized forms
C12_WalkedFormsOnly ==
    (apc \in {"impl", "done"}
        /\ \A i \in 1..Len(fields.tys) : OnlyWalkedForms(fields.tys[i]))
        => struct_type_params = FieldsMention \cap DeclaredSet

\* the declared parameters among the tokens of the interface type
TraitMentions == {variant_trait_type[i] : i \in 1..Len(variant_trait_type)} \cap DeclaredSet

\* position of a parameter in the declaration
DeclPos(p) == CHOOSE i \in 1..Len(all_type_params_ordered) : all_type_params_ordered[i] = p

EntryNames == <<"V1", "V2", "V3", "V4">>

\* syn::Ident accepts these; `fn` is a keyword
IsPIdent(t) == t \in {"V1", "V2", "V3", "V4", "T", "A", "B", "Vec"}

\* well-formed refinement types, as token trees
RefTypes ==
    { <<"T">>,
      <<"T", "<", "A", ",", "B", ">">>,
      <<"T", "<", "Vec", "<", "A", ">", ",", "B", ">">>,
      <<"T", "<", "fn", "(A)", "-", ">", "B", ">">>,
      <<"T", "<", "fn", "(A)", "-", ">", "B", ",", "A", ">">> }

\* a flat/refined entry: name, fields, optional `: Type`
RefinedEntries ==
    [fields : {"Unit", "Unnamed"}, ref : RefTypes \cup {<<>>}]

\* the tokens of the k-th entry of a flat/refined declaration
RefinedEntryToks(en, k) ==
    <<EntryNames[k]>>
    \o (IF en.fields = "Unnamed" THEN <<"(A)">> ELSE <<>>)
    \o (IF en.ref = <<>> THEN <<>> ELSE <<":">> \o en.ref)

\* well-formed parameter and return types of the indexed syntax
IndexedTypes ==
    { <<"A">>,
      <<"T", "<", "A", ",", "B", ">">>,
      <<"Vec", "<", "fn", "(A)", "-", ">", "B", ">">> }

IndexedReturnTypes == { <<"T">>, <<"T", "<", "A", ",", "B", ">">> }

\* an indexed entry `V : T1 -> .. -> R`: the parameter types and the return type
IndexedEntries ==
    [params : {<<>>} \cup {<<t>> : t \in IndexedTypes}
                     \cup {<<<<"A">>, t>> : t \in IndexedTypes},
     ret : IndexedReturnTypes]

RECURSIVE ArrowChain(_)
ArrowChain(params) ==
    IF params = <<>> THEN <<>>
    ELSE Head(params) \o <<"-", ">">> \o ArrowChain(Tail(params))

IndexedEntryToks(en, k) ==
    <<EntryNames[k], ":">> \o ArrowChain(en.params) \o en.ret

\* an entry of a shared operation's block: `pattern => body`, the pattern
\* written with or without generics; body <<>> is an entry without `=>`
MethodEntries ==
    [generic : BOOLEAN, body : {<<>>, <<"x">>, <<"f", "(x)">>}]

MethodPattern(en, k) ==
    IF en.generic THEN <<EntryNames[k], "<", "A", ">", "(x)">>
    ELSE <<EntryNames[k], "(x)">>

MethodEntryToks(en, k) ==
    MethodPattern(en, k)
    \o (IF en.body = <<>> THEN <<>> ELSE <<"=", ">">> \o en.body)

\* the content of the braces: entries, each followed by its comma if written
RECURSIVE ContentToks(_, _, _, _)
ContentToks(kind, entries, commas, k) ==
    IF k > Len(entries) THEN <<>>
    ELSE (IF kind = "parser" THEN IndexedEntryToks(entries[k], k)
          ELSE IF kind = "parse_method" THEN MethodEntryToks(entries[k], k)
          ELSE RefinedEntryToks(entries[k], k))
         \o (IF commas[k] THEN <<",">> ELSE <<>>)
         \o ContentToks(kind, entries, commas, k + 1)

\* src: the entries and, for each, whether a comma follows it
Sources(entrySet) ==
    UNION {[entries : [1..n -> entrySet], commas : [1..n -> BOOLEAN]] :
              n \in 1..MaxEntries}

InitParseEnum ==
    /\ parser_kind = "enum_parser"
    /\ keyword \in {"enum", "trait", "struct"}
    /\ src \in Sources(RefinedEntries)
    /\ content = ContentToks("enum_parser", src.entries, src.commas, 1)

InitParseGadt ==
    /\ parser_kind = "parser"
    /\ keyword \in {"enum", "trait", "struct"}
    /\ src \in Sources(IndexedEntries)
    /\ content = ContentToks("parser", src.entries, src.commas, 1)

\* a head that lets any keyword through
EnumHeadAnyKeyword ==
    /\ parser_kind = "enum_parser" /\ ppc = "head"
    /\ ppc' = "variant"
    /\ UNCHANGED <<parser_kind, keyword, src, content, pos, angle_depth,
                   type_tokens, head, parsed>>
    /\ UNCHANGED notParse

\* attrs, vis, then the keyword: `enum` or `trait`, else Err(lookahead.error())
EnumHead ==
    /\ parser_kind = "enum_parser" /\ ppc = "head"
    /\ ppc' = IF keyword \in {"enum", "trait"} THEN "variant" ELSE "err"
    /\ UNCHANGED <<parser_kind, keyword, src, content, pos, angle_depth, type_tokens, head, parsed>>
    /\ UNCHANGED notParse

\* content.parse::<Generics>(): 0 is an error, else the position after it
RECURSIVE GenericsParams(_)
GenericsParams(p) ==
    IF p > Len(content) THEN 0
    ELSE IF content[p] = ">" THEN p + 1
    ELSE IF ~IsPIdent(content[p]) THEN 0
    ELSE IF p + 1 > Len(content) THEN 0
    ELSE IF content[p + 1] = ">" THEN p + 2
    ELSE IF content[p + 1] = "," THEN GenericsParams(p + 2)
    ELSE 0

ParseGenerics(p) ==
    IF p <= Len(content) /\ content[p] = "<" THEN GenericsParams(p + 1) ELSE p

\* one pass of `while !content.is_empty()` up to the refinement: ident,
\* generics, fields, and the `:` that opens a refinement
EnumVariantHead ==
    /\ parser_kind = "enum_parser" /\ ppc = "variant"
    /\ IF pos > Len(content)
       THEN /\ ppc' = "ok"
            /\ UNCHANGED <<pos, angle_depth, type_tokens, head, parsed>>
       ELSE IF ~IsPIdent(content[pos]) \/ ParseGenerics(pos + 1) = 0
       THEN /\ ppc' = "err"
            /\ UNCHANGED <<pos, angle_depth, type_tokens, head, parsed>>
       ELSE LET g == ParseGenerics(pos + 1)
                hasFields == g <= Len(content) /\ content[g] \in {"(A)", "{..}"}
                f == IF hasFields THEN g + 1 ELSE g
                hasColon == f <= Len(content) /\ content[f] = ":"
                v == [ident |-> content[pos],
                      fields |-> IF ~hasFields THEN "Unit"
                                 ELSE IF content[g] = "(A)" THEN "Unnamed" ELSE "Named",
                      trait_type |-> <<"None">>]
            IN IF hasColon
               THEN /\ ppc' = "refine"
                    /\ pos' = f + 1
                    /\ angle_depth' = 0
                    /\ type_tokens' = <<>>
                    /\ head' = v
                    /\ UNCHANGED parsed
               ELSE /\ ppc' = "comma"
                    /\ pos' = f
                    /\ parsed' = Append(parsed, v)
                    /\ UNCHANGED <<angle_depth, type_tokens, head>>
    /\ UNCHANGED <<parser_kind, keyword, src, content>>
    /\ UNCHANGED notParse

\* one pass of the refinement scan: stop at the end or at a comma at depth 0,
\* else take one token tree and track the depth
EnumRefineStep ==
    /\ parser_kind = "enum_parser" /\ ppc = "refine"
    /\ IF pos > Len(content) \/ (angle_depth = 0 /\ content[pos] = ",")
       THEN /\ parsed' = Append(parsed, [head EXCEPT !.trait_type = <<"Some", type_tokens>>])
            /\ ppc' = "comma"
            /\ UNCHANGED <<pos, angle_depth, type_tokens>>
       ELSE /\ angle_depth' = CASE content[pos] = "<" -> angle_depth + 1
                                [] content[pos] = ">" -> angle_depth - 1
                                [] OTHER -> angle_depth
            /\ type_tokens' = Append(type_tokens, content[pos])
            /\ pos' = pos + 1
            /\ UNCHANGED <<parsed, ppc>>
    /\ UNCHANGED <<parser_kind, keyword, src, content, head>>
    /\ UNCHANGED notParse

\* `if !content.is_empty() { content.parse::<Token![,]>()?; }`
EnumComma ==
    /\ parser_kind = "enum_parser" /\ ppc = "comma"
    /\ IF pos > Len(content)
       THEN ppc' = "variant" /\ UNCHANGED pos
       ELSE IF content[pos] = ","
       THEN ppc' = "variant" /\ pos' = pos + 1
       ELSE ppc' = "err" /\ UNCHANGED pos
    /\ UNCHANGED <<parser_kind, keyword, src, content, angle_depth, type_tokens, head, parsed>>
    /\ UNCHANGED notParse

\* vis, then `input.parse::<Token![enum]>()?`
GadtHead ==
    /\ parser_kind = "parser" /\ ppc = "head"
    /\ ppc' = IF keyword = "enum" THEN "variant" ELSE "err"
    /\ UNCHANGED <<parser_kind, keyword, src, content, pos, angle_depth,
                   type_tokens, head, parsed>>
    /\ UNCHANGED notParse

\* parse_variant's `<T, ..>` list: 0 is an error, else the position after it
RECURSIVE VariantGenerics(_)
VariantGenerics(p) ==
    IF p > Len(content) \/ ~IsPIdent(content[p]) THEN 0
    ELSE IF p + 1 <= Len(content) /\ content[p + 1] = "," THEN VariantGenerics(p + 2)
    ELSE IF p + 1 <= Len(content) /\ content[p + 1] = ">" THEN p + 2
    ELSE 0

\* parse_variant up to the colon: name, optional generics, `:`
GadtVariantHead ==
    /\ parser_kind = "parser" /\ ppc = "variant"
    /\ IF pos > Len(content)
       THEN /\ ppc' = "ok"
            /\ UNCHANGED <<pos, angle_depth, type_tokens, head>>
       ELSE LET g == IF pos + 1 <= Len(content) /\ content[pos + 1] = "<"
                     THEN VariantGenerics(pos + 2) ELSE pos + 1
            IN IF ~IsPIdent(content[pos]) \/ g = 0 \/ g > Len(content)
                  \/ content[g] # ":"
               THEN /\ ppc' = "err"
                    /\ UNCHANGED <<pos, angle_depth, type_tokens, head>>
               ELSE /\ ppc' = "scan"
                    /\ pos' = g + 1
                    /\ angle_depth' = 0
                    /\ type_tokens' = <<>>
                    /\ head' = [name |-> content[pos], param_types |-> <<>>]
    /\ UNCHANGED <<parser_kind, keyword, src, content, parsed>>
    /\ UNCHANGED notParse

\* one pass of parse_variant's `while !input.is_empty()`
GadtScanStep ==
    /\ parser_kind = "parser" /\ ppc = "scan"
    /\ IF pos > Len(content) \/ (content[pos] = "," /\ angle_depth = 0)
       THEN /\ parsed' = Append(parsed, [name |-> head.name,
                                         param_types |-> head.param_types,
                                         return_type |-> type_tokens])
            /\ ppc' = "comma"
            /\ UNCHANGED <<pos, angle_depth, type_tokens, head>>
       ELSE IF content[pos] = "-" /\ pos + 1 <= Len(content) /\ content[pos + 1] = ">"
       THEN /\ head' = IF type_tokens # <<>>
                       THEN [head EXCEPT !.param_types = Append(@, type_tokens)]
                       ELSE head
            /\ type_tokens' = <<>>
            /\ pos' = pos + 2
            /\ UNCHANGED <<angle_depth, parsed, ppc>>
       ELSE /\ angle_depth' = CASE content[pos] = "<" -> angle_depth + 1
                                [] content[pos] = ">" -> angle_depth - 1
                                [] OTHER -> angle_depth
            /\ type_tokens' = Append(type_tokens, content[pos])
            /\ pos' = pos + 1
            /\ UNCHANGED <<head, parsed, ppc>>
    /\ UNCHANGED <<parser_kind, keyword, src, content>>
    /\ UNCHANGED notParse

\* `if content.peek(Token![,]) { content.parse::<Token![,]>()?; }`
GadtComma ==
    /\ parser_kind = "parser" /\ ppc = "comma"
    /\ pos' = IF pos <= Len(content) /\ content[pos] = "," THEN pos + 1 ELSE pos
    /\ ppc' = "variant"
    /\ UNCHANGED <<parser_kind, keyword, src, content, angle_depth, type_tokens,
                   head, parsed>>
    /\ UNCHANGED notParse

InitParseMethod ==
    /\ parser_kind = "parse_method"
    /\ keyword = "fn"
    /\ src \in Sources(MethodEntries)
    /\ content = ContentToks("parse_method", src.entries, src.commas, 1)

\* the signature up to the brace, then `syn::braced!(content in input)`
MethodHead ==
    /\ parser_kind = "parse_method" /\ ppc = "head"
    /\ ppc' = "arm"
    /\ UNCHANGED <<parser_kind, keyword, src, content, pos, angle_depth,
                   type_tokens, head, parsed>>
    /\ UNCHANGED notParse

\* `while !content.is_empty()`: a new arm starts, or Ok(ParsedMethod)
MethodArmStart ==
    /\ parser_kind = "parse_method" /\ ppc = "arm"
    /\ IF pos > Len(content)
       THEN ppc' = "ok" /\ UNCHANGED <<angle_depth, type_tokens>>
       ELSE ppc' = "pattern" /\ angle_depth' = 0 /\ type_tokens' = <<>>
    /\ UNCHANGED <<parser_kind, keyword, src, content, pos, head, parsed>>
    /\ UNCHANGED notParse

\* one pass of the pattern scan; at the end of the content the outer loop
\* breaks with the pattern tokens in hand
MethodPatternStep ==
    /\ parser_kind = "parse_method" /\ ppc = "pattern"
    /\ IF pos > Len(content)
       THEN /\ ppc' = "ok"
            /\ UNCHANGED <<pos, angle_depth, type_tokens, head>>
       ELSE IF /\ content[pos] = "=" /\ pos + 1 <= Len(content)
               /\ content[pos + 1] = ">" /\ angle_depth = 0
       THEN /\ ppc' = "body"
            /\ pos' = pos + 2
            /\ head' = [pattern |-> type_tokens]
            /\ type_tokens' = <<>>
            /\ UNCHANGED angle_depth
       ELSE /\ angle_depth' = CASE content[pos] = "<" -> angle_depth + 1
                                [] content[pos] = ">" ->
                                     IF angle_depth - 1 > 0 THEN angle_depth - 1 ELSE 0
                                [] OTHER -> angle_depth
            /\ type_tokens' = Append(type_tokens, content[pos])
            /\ pos' = pos + 1
            /\ UNCHANGED <<ppc, head>>
    /\ UNCHANGED <<parser_kind, keyword, src, content, parsed>>
    /\ UNCHANGED notParse

\* one pass of the body scan; at a comma or the end the arm is pushed
MethodBodyStep ==
    /\ parser_kind = "parse_method" /\ ppc = "body"
    /\ IF pos > Len(content) \/ content[pos] = ","
       THEN /\ parsed' = Append(parsed, [pattern |-> head.pattern, body |-> type_tokens])
            /\ pos' = IF pos <= Len(content) THEN pos + 1 ELSE pos
            /\ type_tokens' = <<>>
            /\ ppc' = "arm"
       ELSE /\ type_tokens' = Append(type_tokens, content[pos])
            /\ pos' = pos + 1
            /\ UNCHANGED <<parsed, ppc>>
    /\ UNCHANGED <<parser_kind, keyword, src, content, angle_depth, head>>
    /\ UNCHANGED notParse

InitParse ==
    /\ IdleExceptParse
    /\ (InitParseEnum \/ InitParseGadt \/ InitParseMethod)
    /\ pos = 1 /\ angle_depth = 0 /\ type_tokens = <<>> /\ head = <<>> /\ parsed = <<>>
    /\ ppc = "head"

NextParse ==
    \/ EnumHead \/ EnumVariantHead \/ EnumRefineStep \/ EnumComma
    \/ GadtHead \/ GadtVariantHead \/ GadtScanStep \/ GadtComma
    \/ MethodHead \/ MethodArmStart \/ MethodPatternStep \/ MethodBodyStep

SpecParse == InitParse /\ [][NextParse]_vars

(***************************************************************************)
(* Properties of the declaration parsers                                   *)
(***************************************************************************)
\* every entry but the last is followed by its comma
AllSeparated == \A k \in 1..(Len(src.entries) - 1) : src.commas[k]

\* C14: for a well-formed flat/refined declaration with every separator
\* written, the parse succeeds with one variant per entry, each carrying its
\* complete refinement type: no comma inside a refinement's argument list is
\* taken for the variant separator.
C14_RefinementCommasStayInside ==
    (parser_kind = "enum_parser" /\ keyword \in {"enum", "trait"} /\ AllSeparated) =>
        /\ ppc # "err"
        /\ ppc = "ok" =>
              /\ Len(parsed) = Len(src.entries)
              /\ \A k \in 1..Len(parsed) :
                    /\ parsed[k].ident = EntryNames[k]
                    /\ parsed[k].trait_type =
                          IF src.entries[k].ref = <<>> THEN <<"None">>
                          ELSE <<"Some", src.entries[k].ref>>

\* C15: in the indexed syntax only top-level arrows split a variant: for a
\* well-formed declaration with every separator written, the parse yields one
\* variant per entry whose parameter types and return type are the written
\* ones, an arrow inside angle brackets staying inside its type.
C15_InnerArrowsStayInside ==
    (parser_kind = "parser" /\ keyword = "enum" /\ AllSeparated) =>
        /\ ppc # "err"
        /\ ppc = "ok" =>
              /\ Len(parsed) = Len(src.entries)
              /\ \A k \in 1..Len(parsed) :
                    /\ parsed[k].name = EntryNames[k]
                    /\ parsed[k].param_types = src.entries[k].params
                    /\ parsed[k].return_type = src.entries[k].ret

\* the leading keyword is one the running parser accepts
KeywordAccepted ==
    IF parser_kind = "enum_parser" THEN keyword \in {"enum", "trait"}
    ELSE keyword = "enum"

\* C16: a declaration whose leading keyword is not accepted is rejected: the
\* parse ends in the error, no variant is ever parsed and it never succeeds.
C16_WrongKeywordRejected ==
    (parser_kind \in {"enum_parser", "parser"} /\ ~KeywordAccepted) =>
        /\ ppc \in {"head", "err"}
        /\ parsed = <<>>
        /\ ppc = "head" => ENABLED (EnumHead \/ GadtHead)

C16_Witness ==
    /\ parser_kind = "enum_parser" /\ keyword = "struct" /\ ppc = "err"
    /\ Len(src.entries) = 2 /\ parsed = <<>>

\* C17: a declaration in which two consecutive variants are not separated by a
\* comma is never accepted.
C17_MissingCommaRejected ==
    (parser_kind \in {"enum_parser", "parser"} /\ ~AllSeparated) => ppc # "ok"

\* C18: parse_method never returns successfully when the block's last entry
\* is a pattern without `=>`: it does not return having dropped pattern tokens
\* that are in no returned arm.
C18_DanglingPatternRejected ==
    (parser_kind = "parse_method" /\ ppc = "ok") =>
        /\ type_tokens = <<>>
        /\ src.entries[Len(src.entries)].body # <<>>

\* the type holds an arrow inside its angle brackets
HasInnerArrow(ty) ==
    \E i \in 1..(Len(ty) - 1) : ty[i] = "-" /\ ty[i + 1] = ">"

\* the k-th entry of an indexed declaration, as GadtEnum::parse should return it
VariantAsWritten(k) ==
    [name |-> EntryNames[k],
     param_types |-> src.entries[k].params,
     return_type |-> src.entries[k].ret]

\* C21: parsing a well-formed indexed declaration keeps the variants in
\* order: at every point of the parse the k-th variant parsed so far is the
\* k-th entry, with one parameter type per written `Ti ->`, equal to T1..Tn
\* in order, and the return type R; an entry `V : R` has no parameter types.
C21_IndexedVariantsAsWritten ==
    (parser_kind = "parser" /\ keyword = "enum" /\ AllSeparated) =>
        /\ Len(parsed) <= Len(src.entries)
        /\ \A k \in 1..Len(parsed) :
              /\ parsed[k] = VariantAsWritten(k)
              /\ Len(parsed[k].param_types) = Len(src.entries[k].params)
        /\ ppc = "ok" => Len(parsed) = Len(src.entries)

\* the same, of declarations whose types hold no arrow inside angle brackets
C21_AsWrittenWithoutInnerArrows ==
    (parser_kind = "parser" /\ keyword = "enum" /\ AllSeparated
        /\ \A k \in 1..Len(src.entries) : \A i \in 1..Len(src.entries[k].params) :
              ~HasInnerArrow(src.entries[k].params[i])) =>
        /\ Len(parsed) <= Len(src.entries)
        /\ \A k \in 1..Len(parsed) :
              /\ parsed[k] = VariantAsWritten(k)
              /\ Len(parsed[k].param_types) = Len(src.entries[k].params)
        /\ ppc = "ok" => Len(parsed) = Len(src.entries)

\* C27: the angle bracket depth counter a declaration parser keeps while it
\* scans for a top-level separator is never negative, so that a comma outside
\* all angle brackets is met at depth 0.
C27_DepthNeverNegative ==
    parser_kind \in {"enum_parser", "parser", "parse_method"} => angle_depth >= 0

\* the same, of parse_method's pattern scan alone
C27_MethodDepthNeverNegative ==
    parser_kind = "parse_method" => angle_depth >= 0

(***************************************************************************)
(* The transferred-mode arm of g!(match move ..): match_macro.rs           *)
(* generate_move_match and transform_pattern_add_rest.                     *)
(* A token tree is a record: an identifier, a literal, a punctuation       *)
(* character with its spacing, or a delimited group with its stream.       *)
(***************************************************************************)
MaxPatFields == 3

Ident(s) == [kind |-> "Ident", text |-> s, spacing |-> "Alone", stream |-> <<>>]

Literal(s) == [kind |-> "Literal", text |-> s, spacing |-> "Alone", stream |-> <<>>]

Punct(c, sp) == [kind |-> "Punct", text |-> c, spacing |-> sp, stream |-> <<>>]

Group(delimiter, st) ==
    [kind |-> "Group", text |-> delimiter, spacing |-> "Alone", stream |-> st]

\* `..` as the lexer produces it and as transform_pattern_add_rest pushes it
RestPat == <<Punct(".", "Joint"), Punct(".", "Alone")>>

\* `0..=9`: a range pattern
RangePat ==
    <<Literal("0"), Punct(".", "Joint"), Punct(".", "Joint"), Punct("=", "Alone"),
      Literal("9")>>

BindPat == <<Ident("x")>>

WildPat == <<Ident("_")>>

\* the field patterns a group of the given delimiter can hold
FieldPats(delimiter) ==
    IF delimiter = "Parenthesis" THEN {BindPat, WildPat, RangePat, RestPat}
    ELSE {BindPat, RestPat}

RECURSIVE JoinFields(_)
JoinFields(fs) ==
    IF fs = <<>> THEN <<>>
    ELSE IF Len(fs) = 1 THEN fs[1]
    ELSE fs[1] \o <<Punct(",", "Alone")>> \o JoinFields(Tail(fs))

\* the streams of a field group: up to MaxPatFields field patterns, at most
\* one of them `..`, with or without a trailing comma
GroupStreams(delimiter) ==
    LET lists == UNION { [1..n -> FieldPats(delimiter)] : n \in 0..MaxPatFields }
        ok(fs) == Cardinality({i \in 1..Len(fs) : fs[i] = RestPat}) <= 1
        plain == { JoinFields(fs) : fs \in {l \in lists : ok(l)} }
        trailing == { JoinFields(fs) \o <<Punct(",", "Alone")>> :
                        fs \in {l \in lists : ok(l) /\ l # <<>> /\ l[Len(l)] # RestPat} }
    IN plain \cup trailing

\* the patterns of a transferred-mode arm: `V1`, `V1(..)`, `V1 {..}`
ArmPatterns ==
    {<<Ident("V1")>>} \cup
    { <<Ident("V1"), Group(d, st)>> :
        d \in {"Parenthesis"}, st \in GroupStreams("Parenthesis") } \cup
    { <<Ident("V1"), Group(d, st)>> :
        d \in {"Brace"}, st \in GroupStreams("Brace") }

\* .take_while(|t| !matches!(t, Group(_) | Punct(_)))
RECURSIVE TakeTypeName(_)
TakeTypeName(tokens) ==
    IF tokens = <<>> \/ Head(tokens).kind \in {"Group", "Punct"} THEN <<>>
    ELSE <<Head(tokens)>> \o TakeTypeName(Tail(tokens))

\* for i in (0..tokens.len()).rev(): the index of the last group, 0 if none
LastGroup(tokens) ==
    LET gs == {i \in 1..Len(tokens) : tokens[i].kind = "Group"}
    IN IF gs = {} THEN 0 ELSE CHOOSE i \in gs : \A j \in gs : j <= i

\* inner_tokens.iter().any(|t| Punct '.' with Spacing::Joint)
has_rest(inner_tokens) ==
    \E i \in 1..Len(inner_tokens) : inner_tokens[i] = Punct(".", "Joint")

\* the stream holds the two-token `..`
HasRestPair(inner_tokens) ==
    \E i \in 1..(Len(inner_tokens) - 1) :
        /\ inner_tokens[i] = Punct(".", "Joint")
        /\ inner_tokens[i + 1] = Punct(".", "Alone")

transform_pattern_add_rest(tokens) ==
    LET i == LastGroup(tokens)
    IN IF i = 0 THEN tokens
       ELSE LET inner_tokens == tokens[i].stream
                with_comma ==
                    IF inner_tokens[Len(inner_tokens)] # Punct(",", "Alone")
                    THEN Append(inner_tokens, Punct(",", "Alone"))
                    ELSE inner_tokens
                new_stream ==
                    IF ~has_rest(inner_tokens) /\ inner_tokens # <<>>
                    THEN with_comma \o RestPat
                    ELSE inner_tokens
            IN [tokens EXCEPT ![i] = Group(tokens[i].text, new_stream)]

InitRest ==
    /\ IdleExceptRest
    /\ arm_pattern \in ArmPatterns
    /\ type_name = <<>>
    /\ transformed_pattern = <<>>
    /\ rpc = "arm"

\* one arm of match_arms: the type name and the rewritten pattern
GenerateMoveMatchArm ==
    /\ rpc = "arm"
    /\ type_name' = TakeTypeName(arm_pattern)
    /\ transformed_pattern' = transform_pattern_add_rest(arm_pattern)
    /\ rpc' = "done"
    /\ UNCHANGED arm_pattern
    /\ UNCHANGED notRest

NextRest == GenerateMoveMatchArm

SpecRest == InitRest /\ [][NextRest]_vars

\* how many `..` a field group's stream holds
RestCount(st) ==
    Cardinality({i \in 1..(Len(st) - 1) :
        /\ st[i] = Punct(".", "Joint")
        /\ st[i + 1] = Punct(".", "Alone")})

EndsWithRest(st) ==
    /\ Len(st) >= 2
    /\ SubSeq(st, Len(st) - 1, Len(st)) = RestPat

\* the field group of a pattern that has a non-empty one
FieldGroup(tokens) == tokens[LastGroup(tokens)].stream

HasFields(tokens) == LastGroup(tokens) # 0 /\ FieldGroup(tokens) # <<>>

\* C19: the rewritten pattern of a transferred-mode arm holds exactly one
\* rest placeholder `..` in its last non-empty field group, so that the
\* trailing marker field is ignored: one is appended at the end when the
\* group has none (also when the group holds other dotted syntax, such as a
\* range), one already present is not duplicated, and rewriting twice
\* equals rewriting once.
C19_ExactlyOneRest ==
    (rpc = "done" /\ HasFields(arm_pattern)) =>
        /\ RestCount(FieldGroup(transformed_pattern)) = 1
        /\ RestCount(FieldGroup(arm_pattern)) = 0 =>
                EndsWithRest(FieldGroup(transformed_pattern))
        /\ transform_pattern_add_rest(transformed_pattern) = transformed_pattern

\* the same, for field groups without other dotted syntax
C19_OneRestWithoutOtherDots ==
    (rpc = "done" /\ HasFields(arm_pattern)
        /\ has_rest(FieldGroup(arm_pattern)) = HasRestPair(FieldGroup(arm_pattern))) =>
        /\ RestCount(FieldGroup(transformed_pattern)) = 1
        /\ RestCount(FieldGroup(arm_pattern)) = 0 =>
                EndsWithRest(FieldGroup(transformed_pattern))
        /\ transform_pattern_add_rest(transformed_pattern) = transformed_pattern

(***************************************************************************)
(* The dispatch request parsers: lib.rs parse_match_t (match_t!),          *)
(* match_macro.rs parse_match_expr (g!(match ..)) and pattern_parser.rs    *)
(* parse_match_t with parse_expression_and_type_hint.                      *)
(***************************************************************************)
MaxRequestLen == 4

RequestParsers == {"lib", "match_macro", "pattern_parser"}

\* the token trees a request is written from
RequestTokens ==
    {Ident("match"), Ident("move"), Ident("e"), Ident("as"), Ident("T"),
     Group("Brace", <<>>), Group("Parenthesis", <<>>)}

Requests == UNION { [1..n -> RequestTokens] : n \in 0..MaxRequestLen }

IsBrace(t) == t.kind = "Group" /\ t.text = "Brace"

\* iter.peek(): <<>> is None, <<t>> is Some(t)
Peek == IF iter < Len(request) THEN <<request[iter + 1]>> ELSE <<>>

PeekIs(t) == Peek = <<t>>

InitRequest ==
    /\ IdleExceptRequest
    /\ request_parser \in RequestParsers
    /\ request \in Requests
    /\ iter = 0
    /\ request_is_move = FALSE
    /\ expr_tokens = <<>>
    /\ type_hint = <<>>
    /\ arms_group = <<>>
    /\ qpc = IF request_parser = "match_macro" THEN "match" ELSE "move"

\* parse_match_expr: match iter.next() { Some(Ident) if "match" => {} _ => Err }
RequestMatchKeyword ==
    /\ qpc = "match"
    /\ IF PeekIs(Ident("match"))
       THEN /\ iter' = iter + 1
            /\ qpc' = "move"
       ELSE /\ iter' = IF Peek = <<>> THEN iter ELSE iter + 1
            /\ qpc' = "err"
    /\ UNCHANGED <<request_parser, request, request_is_move, expr_tokens,
                   type_hint, arms_group>>
    /\ UNCHANGED notRequest

\* the optional `move`: peeked, and consumed only when it is there
RequestMoveKeyword ==
    /\ qpc = "move"
    /\ request_is_move' = PeekIs(Ident("move"))
    /\ iter' = IF PeekIs(Ident("move")) THEN iter + 1 ELSE iter
    /\ qpc' = "expr"
    /\ UNCHANGED <<request_parser, request, expr_tokens, type_hint, arms_group>>
    /\ UNCHANGED notRequest

\* one turn of the expression loop; only pattern_parser.rs looks for `as`
RequestExprStep ==
    /\ qpc = "expr"
    /\ IF Peek = <<>> \/ IsBrace(Peek[1])
       THEN /\ qpc' = "arms"
            /\ UNCHANGED <<iter, expr_tokens, type_hint>>
       ELSE IF request_parser = "pattern_parser" /\ PeekIs(Ident("as"))
       THEN /\ iter' = iter + 1
            /\ type_hint' = << <<>> >>
            /\ qpc' = "hint"
            /\ UNCHANGED expr_tokens
       ELSE /\ expr_tokens' = Append(expr_tokens, Peek[1])
            /\ iter' = iter + 1
            /\ UNCHANGED <<type_hint, qpc>>
    /\ UNCHANGED <<request_parser, request, request_is_move, arms_group>>
    /\ UNCHANGED notRequest

\* parse_expression_and_type_hint: the type hint runs up to the brace group
RequestTypeHintStep ==
    /\ qpc = "hint"
    /\ IF Peek = <<>> \/ IsBrace(Peek[1])
       THEN /\ qpc' = "arms"
            /\ UNCHANGED <<iter, type_hint>>
       ELSE /\ type_hint' = <<Append(type_hint[1], Peek[1])>>
            /\ iter' = iter + 1
            /\ UNCHANGED qpc
    /\ UNCHANGED <<request_parser, request, request_is_move, expr_tokens, arms_group>>
    /\ UNCHANGED notRequest

\* match iter.next() { Some(Group) if Brace => g, _ => Err("Expected braced block ..") }
RequestArmsGroup ==
    /\ qpc = "arms"
    /\ IF Peek # <<>> /\ IsBrace(Peek[1])
       THEN /\ arms_group' = Peek
            /\ iter' = iter + 1
            /\ qpc' = "ok"
       ELSE /\ iter' = IF Peek = <<>> THEN iter ELSE iter + 1
            /\ qpc' = "err"
            /\ UNCHANGED arms_group
    /\ UNCHANGED <<request_parser, request, request_is_move, expr_tokens, type_hint>>
    /\ UNCHANGED notRequest

NextRequest ==
    \/ RequestMatchKeyword
    \/ RequestMoveKeyword
    \/ RequestExprStep
    \/ RequestTypeHintStep
    \/ RequestArmsGroup

SpecRequest == InitRequest /\ [][NextRequest]_vars

\* the request after the `match` keyword, where the parser requires one
AfterMatch ==
    IF request_parser = "match_macro" /\ request # <<>> THEN Tail(request) ELSE request

StartsWithMove == AfterMatch # <<>> /\ Head(AfterMatch) = Ident("move")

\* the request after `match` and `move`
AfterMove == IF StartsWithMove THEN Tail(AfterMatch) ELSE AfterMatch

\* the index of the first token tree of ts satisfying Test, Len(ts) + 1 if none
FirstIndex(ts, Test(_)) ==
    LET hits == {i \in 1..Len(ts) : Test(ts[i])}
    IN IF hits = {} THEN Len(ts) + 1 ELSE CHOOSE i \in hits : \A j \in hits : i <= j

IsAs(t) == t = Ident("as")

BracePos == FirstIndex(AfterMove, IsBrace)

\* the tokens before the first brace group
BeforeBrace == SubSeq(AfterMove, 1, BracePos - 1)

AsPos == FirstIndex(BeforeBrace, IsAs)

HasTypeHint == AsPos <= Len(BeforeBrace)

HasArmBlock == BracePos <= Len(AfterMove)

\* what the claim says of an accepted request
RequestAsWritten ==
    /\ request_is_move = StartsWithMove
    /\ expr_tokens = SubSeq(BeforeBrace, 1, AsPos - 1)
    /\ type_hint = IF HasTypeHint
                   THEN <<SubSeq(BeforeBrace, AsPos + 1, Len(BeforeBrace))>>
                   ELSE <<>>

\* C20: a request is in transferred mode exactly when its first token (after
\* `match` where required) is `move`; `move` is not part of the handle
\* expression; the handle expression is the tokens before `as` or the first
\* brace group; the type hint is the tokens between `as` and the brace
\* group; a request without a braced arm block is rejected.
C20_RequestParsedAsWritten ==
    /\ qpc = "ok" => RequestAsWritten
    /\ (qpc \in {"ok", "err"} /\ ~HasArmBlock) => qpc = "err"

\* the same, of pattern_parser.rs alone and of requests without `as`
C20_ParsedAsWrittenWhereAsIsKnown ==
    (request_parser = "pattern_parser" \/ ~HasTypeHint) =>
        /\ qpc = "ok" => RequestAsWritten
        /\ (qpc \in {"ok", "err"} /\ ~HasArmBlock) => qpc = "err"

(***************************************************************************)
(* The dispatch arm parser: parse_match_arms of pattern_parser.rs and of   *)
(* match_macro.rs, and the same loop inlined in lib.rs parse_match_t.      *)
(***************************************************************************)
MaxArmEntries == 2

\* `=>` as the lexer produces it
FatArrow == <<Punct("=", "Joint"), Punct(">", "Alone")>>

CommaPunct == Punct(",", "Alone")

\* the pattern of the k-th entry, without or with type arguments
EntryPatterns(k) ==
    { <<Ident(EntryNames[k]), Group("Parenthesis", <<Ident("a")>>)>>,
      <<Ident(EntryNames[k]), Punct("<", "Alone"), Ident("A"), CommaPunct, Ident("B"),
        Punct(">", "Alone"), Group("Parenthesis", <<Ident("a")>>)>> }

\* bodies: `a`, `f(a)`, `{ a }`, `a > b`, `a >= b`
EntryBodies ==
    { <<Ident("a")>>,
      <<Ident("f"), Group("Parenthesis", <<Ident("a")>>)>>,
      <<Group("Brace", <<Ident("a")>>)>>,
      <<Ident("a"), Punct(">", "Alone"), Ident("b")>>,
      <<Ident("a"), Punct(">", "Joint"), Punct("=", "Alone"), Ident("b")>> }

\* an arm block: `pattern => body` entries separated by commas, the last one
\* followed by a comma or not
ArmBlocks ==
    UNION { { [entries |-> es, trailing |-> t] :
                es \in { f \in [1..n -> [pattern : UNION {EntryPatterns(k) : k \in 1..n},
                                         body : EntryBodies]] :
                           \A k \in 1..n : f[k].pattern \in EntryPatterns(k) },
                t \in (IF n = 0 THEN {FALSE} ELSE BOOLEAN) } :
            n \in 0..MaxArmEntries }

RECURSIVE BlockTokens(_, _)
BlockTokens(b, k) ==
    IF k > Len(b.entries) THEN <<>>
    ELSE b.entries[k].pattern \o FatArrow \o b.entries[k].body
         \o (IF k < Len(b.entries) \/ b.trailing THEN <<CommaPunct>> ELSE <<>>)
         \o BlockTokens(b, k + 1)

IsPunct(t, c) == t.kind = "Punct" /\ t.text = c

InitArms ==
    /\ IdleExceptArms
    /\ block \in ArmBlocks
    /\ arms_tokens = BlockTokens(block, 1)
    /\ arm_pos = 0
    /\ match_arms = <<>>
    /\ current_pattern = <<>>
    /\ current_body = <<>>
    /\ in_body = FALSE
    /\ mpc = "loop"

\* an arm loop that ends the arm at every comma
ArmTokenEveryComma ==
    /\ mpc = "loop" /\ arm_pos < Len(arms_tokens)
    /\ LET token == arms_tokens[arm_pos + 1] IN
       IF IsPunct(token, "=") /\ ~in_body
       THEN /\ current_pattern' = Append(current_pattern, token)
            /\ UNCHANGED <<current_body, in_body, match_arms>>
       ELSE IF IsPunct(token, ">") /\ current_pattern # <<>>
       THEN IF IsPunct(current_pattern[Len(current_pattern)], "=")
            THEN /\ current_pattern' = SubSeq(current_pattern, 1, Len(current_pattern) - 1)
                 /\ in_body' = TRUE
                 /\ UNCHANGED <<current_body, match_arms>>
            ELSE /\ current_pattern' = Append(current_pattern, token)
                 /\ UNCHANGED <<current_body, in_body, match_arms>>
       ELSE IF IsPunct(token, ",")
       THEN /\ match_arms' = Append(match_arms, [pattern |-> current_pattern,
                                                 body |-> current_body])
            /\ current_pattern' = <<>>
            /\ current_body' = <<>>
            /\ in_body' = FALSE
       ELSE IF in_body
       THEN /\ current_body' = Append(current_body, token)
            /\ UNCHANGED <<current_pattern, in_body, match_arms>>
       ELSE /\ current_pattern' = Append(current_pattern, token)
            /\ UNCHANGED <<current_body, in_body, match_arms>>
    /\ arm_pos' = arm_pos + 1
    /\ UNCHANGED <<block, arms_tokens, mpc>>
    /\ UNCHANGED notArms

\* one turn of `for token in tokens { match &token { .. } }`
ArmToken ==
    /\ mpc = "loop" /\ arm_pos < Len(arms_tokens)
    /\ LET token == arms_tokens[arm_pos + 1] IN
       IF IsPunct(token, "=") /\ ~in_body
       THEN /\ current_pattern' = Append(current_pattern, token)
            /\ UNCHANGED <<current_body, in_body, match_arms>>
       ELSE IF IsPunct(token, ">") /\ current_pattern # <<>>
       THEN IF IsPunct(current_pattern[Len(current_pattern)], "=")
            THEN /\ current_pattern' = SubSeq(current_pattern, 1, Len(current_pattern) - 1)
                 /\ in_body' = TRUE
                 /\ UNCHANGED <<current_body, match_arms>>
            ELSE /\ current_pattern' = Append(current_pattern, token)
                 /\ UNCHANGED <<current_body, in_body, match_arms>>
       ELSE IF IsPunct(token, ",") /\ in_body
       THEN /\ match_arms' = Append(match_arms, [pattern |-> current_pattern,
                                                 body |-> current_body])
            /\ current_pattern' = <<>>
            /\ current_body' = <<>>
            /\ in_body' = FALSE
       ELSE IF in_body
       THEN /\ current_body' = Append(current_body, token)
            /\ UNCHANGED <<current_pattern, in_body, match_arms>>
       ELSE /\ current_pattern' = Append(current_pattern, token)
            /\ UNCHANGED <<current_body, in_body, match_arms>>
    /\ arm_pos' = arm_pos + 1
    /\ UNCHANGED <<block, arms_tokens, mpc>>
    /\ UNCHANGED notArms

\* after the loop: the last arm, if anything is left of one
ArmsFinish ==
    /\ mpc = "loop" /\ arm_pos = Len(arms_tokens)
    /\ match_arms' = IF current_pattern # <<>> \/ current_body # <<>>
                     THEN Append(match_arms, [pattern |-> current_pattern,
                                              body |-> current_body])
                     ELSE match_arms
    /\ mpc' = "done"
    /\ UNCHANGED <<block, arms_tokens, arm_pos, current_pattern, current_body, in_body>>
    /\ UNCHANGED notArms

NextArms == ArmToken \/ ArmsFinish

SpecArms == InitArms /\ [][NextArms]_vars

\* s begins with p
StartsWith(s, p) == Len(s) >= Len(p) /\ SubSeq(s, 1, Len(p)) = p

C26_BodyTokensStayInBody ==
    mpc \in {"loop", "done"} =>
        \A k \in 1..Len(match_arms) :
            /\ match_arms[k].body = block.entries[k].body
            /\ match_arms[k].pattern = block.entries[k].pattern

\* the same, of blocks whose bodies hold no `>`
C26_ConservedWithoutGreaterThan ==
    (mpc \in {"loop", "done"}
        /\ \A k \in 1..Len(block.entries) : \A i \in 1..Len(block.entries[k].body) :
              ~IsPunct(block.entries[k].body[i], ">")) =>
        \A k \in 1..Len(match_arms) :
            /\ match_arms[k].body = block.entries[k].body
            /\ match_arms[k].pattern = block.entries[k].pattern

(***************************************************************************)
(* One method body: variant_gen.rs generate_method_body, with the          *)
(* signature's text as TokenStream::to_string prints it.                   *)
(***************************************************************************)
Colon == <<":">>
SelfKw == <<"s", "e", "l", "f">>
SelfTy == <<"S", "e", "l", "f">>
BoxId == <<"B", "o", "x">>
Other == <<"o">>
Myself == <<"m", "y", "s", "e", "l", "f">>

\* the parameter lists of a shared operation's signature, with the receiver
\* each one declares
MethodSigs ==
    { [receiver |-> "borrowed", params |-> <<LParen, Amp, SelfKw, RParen>>],
      [receiver |-> "value", params |-> <<LParen, SelfKw, RParen>>],
      [receiver |-> "boxed",
       params |-> <<LParen, SelfKw, Colon, BoxId, Lt, SelfTy, Gt, RParen>>] }
    \cup
    { [receiver |-> "borrowed",
       params |-> <<LParen, Amp, SelfKw, Comma, name, Colon, BoxId, Lt, SelfTy, Gt,
                    RParen>>] : name \in {Other, Myself} }

\* Sep, and for the source-like style the spacing of `name: Box<Self>`
SigSep(prev, next, st) ==
    IF st = "tight" /\ (next = Colon \/ prev \in {Lt, Gt} \/ next \in {Lt, Gt})
    THEN <<>>
    ELSE Sep(prev, next, st)

\* method.sig.to_string()
RECURSIVE RenderSig(_, _)
RenderSig(toks, st) ==
    IF Len(toks) = 0 THEN <<>>
    ELSE IF Len(toks) = 1 THEN toks[1]
    ELSE toks[1] \o SigSep(toks[1], toks[2], st) \o RenderSig(Tail(toks), st)

\* sig_str.contains("self : Box < Self >") || sig_str.contains("self: Box<Self>")
is_boxed_self(sig_str) ==
    \/ Contains(sig_str, Render(<<SelfKw, Colon, BoxId, Lt, SelfTy, Gt>>, "loose"))
    \/ Contains(sig_str, SelfKw \o Colon \o Space \o BoxId \o Lt \o SelfTy \o Gt)

InitBody ==
    /\ IdleExceptBody
    /\ body_variant \in [name : VariantNames]
    /\ body_method \in [sig : MethodSigs,
                        arms : UNION {[1..k -> [ctor : VariantNames]] :
                                         k \in 0..MaxMethodArms}]
    /\ body_style \in {"loose", "fallback", "tight"}
    /\ method_impl = <<>>
    /\ bpc = "body"

\* generate_method_body: None without a matching arm, else the first matching
\* arm's pattern and body in the consuming or the borrowed match
GenerateMethodBody ==
    /\ bpc = "body"
    /\ LET matching == matching_arms(body_variant, body_method.arms)
           first == CHOOSE k \in matching : \A j \in matching : k <= j
           sig_str == RenderSig(body_method.sig.params, body_style)
       IN method_impl' =
              IF matching = {} THEN <<>>
              ELSE <<[form |-> IF is_boxed_self(sig_str) THEN "consuming" ELSE "borrowed",
                      arm |-> first - 1,
                      pattern |-> body_method.arms[first].ctor]>>
    /\ bpc' = "done"
    /\ UNCHANGED <<body_variant, body_method, body_style>>
    /\ UNCHANGED notBody

NextBody == GenerateMethodBody

SpecBody == InitBody /\ [][NextBody]_vars

\* C25: the body generated for a variant has the consuming form (downcast of
\* the boxed receiver, then a match on the moved-out record) exactly when the
\* signature's receiver is `self: Box<Self>`, and the borrowed match for any
\* other receiver; in both forms the arm spliced in is the variant's own.
C25_ConsumingIffBoxedReceiver ==
    (bpc = "done" /\ method_impl # <<>>) =>
        /\ method_impl[1].form = "consuming" <=> body_method.sig.receiver = "boxed"
        /\ method_impl[1].pattern = body_variant.name

\* the same, where no other variant's name holds the variant's name and no
\* parameter's name ends in `self`
C25_WhereNamesAreApart ==
    (bpc = "done" /\ method_impl # <<>>
        /\ \A k \in 1..Len(body_method.arms) :
              Contains(body_method.arms[k].ctor, body_variant.name)
                  => body_method.arms[k].ctor = body_variant.name
        /\ \A i \in 1..Len(body_method.sig.params) :
              body_method.sig.params[i] # Myself) =>
        /\ method_impl[1].form = "consuming" <=> body_method.sig.receiver = "boxed"
        /\ method_impl[1].pattern = body_variant.name

(***************************************************************************)
(* Removing the type arguments of an arm pattern: helpers.rs               *)
(* strip_pattern_generics and pattern_parser.rs extract_type_and_pattern.  *)
(***************************************************************************)
MaxNesting == 2

\* the type arguments a pattern may write: `A`, `Vec<A>`, `Vec<Vec<A>>`, ..
RECURSIVE TypeArgs(_)
TypeArgs(d) ==
    IF d = 0 THEN {<<Ident("A")>>, <<Ident("i32")>>}
    ELSE TypeArgs(d - 1) \cup
         { <<Ident("Vec"), Punct("<", "Alone")>> \o t \o <<Punct(">", "Alone")>> :
             t \in TypeArgs(d - 1) }

\* an arm pattern as written: up to two type arguments, and the fields
PatternSources ==
    [args : UNION {[1..n -> TypeArgs(MaxNesting - 1)] : n \in 0..2},
     fields : {<<>>, <<Group("Parenthesis", <<Ident("x")>>)>>,
               <<Group("Brace", <<Ident("x")>>)>>}]

RECURSIVE JoinTypeArgs(_)
JoinTypeArgs(args) ==
    IF args = <<>> THEN <<>>
    ELSE IF Len(args) = 1 THEN args[1]
    ELSE args[1] \o <<Punct(",", "Alone")>> \o JoinTypeArgs(Tail(args))

\* `Lift<Vec<i32>>(x)` as token trees
PatternTokens(ps) ==
    <<Ident("Lift")>>
    \o (IF ps.args = <<>> THEN <<>>
        ELSE <<Punct("<", "Alone")>> \o JoinTypeArgs(ps.args) \o <<Punct(">", "Alone")>>)
    \o ps.fields

\* one turn of strip_pattern_generics' loop; st = [skip_until_gt, result_tokens]
StripStep(st, tt) ==
    IF IsPunct(tt, "<") THEN [st EXCEPT !.skip_until_gt = TRUE]
    ELSE IF IsPunct(tt, ">") /\ st.skip_until_gt
    THEN [st EXCEPT !.skip_until_gt = FALSE]
    ELSE IF st.skip_until_gt THEN st
    ELSE [st EXCEPT !.result_tokens = Append(@, tt)]

RECURSIVE StripLoop(_, _)
StripLoop(st, toks) ==
    IF toks = <<>> THEN st ELSE StripLoop(StripStep(st, Head(toks)), Tail(toks))

strip_pattern_generics(toks) ==
    StripLoop([skip_until_gt |-> FALSE, result_tokens |-> <<>>], toks).result_tokens

\* extract_type_and_pattern, first pass; st = [depth, out, stop]
TypeNameStep(st, tt) ==
    IF st.stop THEN st
    ELSE IF tt.kind = "Group" /\ tt.text \in {"Parenthesis", "Brace"}
    THEN [st EXCEPT !.stop = TRUE]
    ELSE IF IsPunct(tt, "<")
    THEN [st EXCEPT !.depth = @ + 1, !.out = Append(@, tt)]
    ELSE IF IsPunct(tt, ">") /\ st.depth > 0
    THEN [st EXCEPT !.depth = @ - 1, !.out = Append(@, tt)]
    ELSE IF tt.kind = "Punct" /\ st.depth = 0 THEN [st EXCEPT !.stop = TRUE]
    ELSE [st EXCEPT !.out = Append(@, tt)]

\* extract_type_and_pattern, second pass; st = [skip, depth, out]
WithoutGenericsStep(st, tt) ==
    IF IsPunct(tt, "<") /\ ~st.skip THEN [st EXCEPT !.skip = TRUE, !.depth = 1]
    ELSE IF IsPunct(tt, "<") /\ st.skip THEN [st EXCEPT !.depth = @ + 1]
    ELSE IF IsPunct(tt, ">") /\ st.skip
    THEN [st EXCEPT !.depth = @ - 1, !.skip = (st.depth - 1 # 0)]
    ELSE IF ~st.skip THEN [st EXCEPT !.out = Append(@, tt)]
    ELSE st

RECURSIVE ExtractPass(_, _, _)
ExtractPass(first, st, toks) ==
    IF toks = <<>> THEN st
    ELSE ExtractPass(first,
                     IF first THEN TypeNameStep(st, Head(toks))
                     ELSE WithoutGenericsStep(st, Head(toks)),
                     Tail(toks))

\* (type_name_for_downcast, pattern_without_generics)
extract_type_and_pattern(toks) ==
    << ExtractPass(TRUE, [depth |-> 0, out |-> <<>>, stop |-> FALSE], toks).out,
       ExtractPass(FALSE, [skip |-> FALSE, depth |-> 0, out |-> <<>>], toks).out >>

InitStrip ==
    /\ IdleExceptStrip
    /\ pattern_src \in PatternSources
    /\ pattern_raw = PatternTokens(pattern_src)
    /\ result_tokens = <<>>
    /\ type_name_tokens = <<>>
    /\ pattern_without_generics = <<>>
    /\ tpc = "start"

\* generate_method_body: cleaned_pattern = strip_pattern_generics(pattern_raw)
StripPatternGenerics ==
    /\ tpc \in {"start", "extracted"}
    /\ result_tokens' = <<strip_pattern_generics(pattern_raw)>>
    /\ tpc' = IF tpc = "start" THEN "stripped" ELSE "done"
    /\ UNCHANGED <<pattern_src, pattern_raw, type_name_tokens, pattern_without_generics>>
    /\ UNCHANGED notStrip

ExtractTypeAndPattern ==
    /\ tpc \in {"start", "stripped"}
    /\ type_name_tokens' = extract_type_and_pattern(pattern_raw)[1]
    /\ pattern_without_generics' = <<extract_type_and_pattern(pattern_raw)[2]>>
    /\ tpc' = IF tpc = "start" THEN "extracted" ELSE "done"
    /\ UNCHANGED <<pattern_src, pattern_raw, result_tokens>>
    /\ UNCHANGED notStrip

NextStrip == StripPatternGenerics \/ ExtractTypeAndPattern

SpecStrip == InitStrip /\ [][NextStrip]_vars

\* the pattern without its type arguments
WithoutTypeArgs == <<Ident("Lift")>> \o pattern_src.fields

\* C30: strip_pattern_generics and the generics-free pattern of
\* extract_type_and_pattern agree on every arm pattern: each is the pattern
\* with the tokens of its balanced top-level angle bracket span removed,
\* nested spans included, and every other token kept in order.
C30_StrippersAgree ==
    /\ result_tokens # <<>> => result_tokens[1] = WithoutTypeArgs
    /\ pattern_without_generics # <<>> => pattern_without_generics[1] = WithoutTypeArgs
    /\ tpc = "done" => result_tokens = pattern_without_generics

\* the same, of patterns whose type arguments hold no angle brackets
C30_AgreeWithoutNesting ==
    (\A k \in 1..Len(pattern_src.args) : Len(pattern_src.args[k]) = 1) =>
        /\ result_tokens # <<>> => result_tokens[1] = WithoutTypeArgs
        /\ pattern_without_generics # <<>> =>
              pattern_without_generics[1] = WithoutTypeArgs
        /\ tpc = "done" => result_tokens = pattern_without_generics

====
